---- MODULE Spec2Model ----
(***************************************************************************)
(* Flow-field navigation core of Permafrost Engine                         *)
(* (src/navigation/field.c): initial frontier, integration field, flow     *)
(* field, portal fix-up and the two fallback builders.                     *)
(***************************************************************************)
EXTENDS Integers, Sequences, FiniteSets, Bags, TLC

(***************************************************************************)
(* Bounds of the model                                                     *)
(***************************************************************************)
\* tiles per chunk side (FIELD_RES_R = FIELD_RES_C = 64 in the engine)
GridRes == 3
\* largest number of COST_IMPASSABLE tiles of a terrain chunk
MaxImpassable == 2
\* largest number of entities the position index returns
MaxEnts == 2
\* tile rows and tile columns per chunk in the line-of-sight specifications
LosRows == 4
LosCols == 6
\* the quantised slopes of the Bresenham specification are the multiples of
\* 1000 / SlopeParts
SlopeParts == 4
\* chunks of the map of the region specification, in one row, and the
\* positions along a chunk
MapChunks == 2
ChunkLen == 2
\* the chunk sides of the fields with FIELD_RES_R and FIELD_RES_C apart, and
\* the largest finite value of their integration fields
DirShort == 2
DirLong == 3
DirMaxCost == 2
\* the objects of type pf.Region that the calls of py_region.c construct
MaxPyObjs == 2

(***************************************************************************)
(* Program constants                                                       *)
(***************************************************************************)
FIELD_RES_R == GridRes
FIELD_RES_C == GridRes
COST_IMPASSABLE == 255
INFINITY == 100000
\* factions of the model (MAX_FACTIONS = 16 in the engine)
MAX_FACTIONS == 3
FACTION_ID_NONE == -1
ISLAND_NONE == 65535
INT_MAX == 2147483647
INT_MIN == -INT_MAX - 1
\* FIELD_RES_R and FIELD_RES_C of the line-of-sight specifications
LOS_RES_R == LosRows
LOS_RES_C == LosCols

FD_NONE == 0
FD_NW == 1
FD_N == 2
FD_NE == 3
FD_W == 4
FD_E == 5
FD_SW == 6
FD_S == 7
FD_SE == 8

Tiles == (0 .. FIELD_RES_R - 1) \X (0 .. FIELD_RES_C - 1)
LosTiles == (0 .. LOS_RES_R - 1) \X (0 .. LOS_RES_C - 1)
Factions == 0 .. MAX_FACTIONS - 1

MIN(a, b) == IF a < b THEN a ELSE b

abs(x) == IF x < 0 THEN -x ELSE x

VARIABLES
    chunk,              \* struct nav_chunk of the chunk being updated
    chunk_coord,        \* coordinate of that chunk in the map
    faction_id,         \* faction the field is computed for
    flow,               \* struct flow_field: [target, field]
    integration_field,  \* float integration_field[R][C] of the running call
    frontier,           \* pq_coord_t frontier of the running call
    init_frontier,      \* the coords pushed at priority 0 by the running call
    natural,            \* what field_initial_frontier returned to the call
    retried,            \* the call ran field_initial_frontier with ignoreblock
    caller_iid,         \* local_iid argument of N_FlowFieldUpdateIslandToNearest
    start_coord,        \* start argument of N_FlowFieldUpdateToNearestPathable
    ents,               \* the entities the position index returns
    entry_field,        \* flow.field as it was when the running call began
    op,                 \* the public function that is running, or "none"
    pc,                 \* position inside that function
    phase               \* how often the buffer was updated since N_FlowFieldInit

\* N_LOSFieldCreate
VARIABLES
    los_target,         \* struct tile_desc target: [chunk, tile]
    prev_los,           \* the predecessor's struct LOS_field, or NoPrevLos
    out_los,            \* out_los->field: [visible, wavefront_blocked] per tile
    los_integration,    \* float integration_field[R][C] of N_LOSFieldCreate
    los_frontier,       \* pq_coord_t frontier of N_LOSFieldCreate
    walked,             \* the tiles the shadow-line walks of the call visited
    los_pc              \* position inside N_LOSFieldCreate

\* field_create_wavefront_blocked_line on its own
VARIABLES
    line,               \* dx, dy, sx, sy, err and curr of the walk
    line_prev,          \* curr before the last iteration
    line_iters,         \* iterations done
    line_pc             \* "walk" while the do-while loop runs

\* region.c
VARIABLES
    s_regions,          \* khash of struct region by name
    s_intersecting,     \* per chunk, the vec_str_t of the names intersecting it
    s_dirty,            \* khash set of the names touched since the last tick
    ent_pos,            \* the position index: XZ position of every entity
    events,             \* the notifications the last call of region.c sent
    region_op,          \* the function of region.c called last, or "none"
    region_ret          \* what it returned

flow_vars == <<flow, integration_field, frontier, init_frontier, natural, retried,
               caller_iid, start_coord, ents, entry_field, op, pc, phase>>

los_vars == <<los_target, prev_los, out_los, los_integration, los_frontier,
              walked, los_pc>>

line_vars == <<line, line_prev, line_iters, line_pc>>

region_vars == <<s_regions, s_intersecting, s_dirty, ent_pos, events, region_op,
                 region_ret>>

\* N_FlowField_ID called twice, to compare the identities of two triples
VARIABLES
    id_args,            \* the (chunk, target, layer) of the first and second call
    id_ret              \* what each call returned

id_vars == <<id_args, id_ret>>

\* several invocations of N_FlowFieldUpdate in flight at once
VARIABLES
    jobs                \* per job: its out buffer, its locals, its position

job_vars == <<jobs>>

\* N_FlowFieldUpdate on the open chunk of OpenRes x OpenRes tiles
VARIABLES
    open_flow,          \* struct flow_field of the open chunk: [target, field]
    open_integration,   \* float integration_field[R][C] of the call
    open_frontier,      \* pq_coord_t frontier of the call
    open_pc             \* position inside the call

open_vars == <<open_flow, open_integration, open_frontier, open_pc>>

\* One call of field_flow_dir on a field of dir_args.rows x dir_args.cols tiles
VARIABLES
    dir_args,           \* the resolution, the integration field and the tile
    dir_ret             \* what the call returned

dir_vars == <<dir_args, dir_ret>>

\* py_region.c: the objects of type pf.Region
VARIABLES
    py_table,           \* s_name_pyobj_table: the object under every key
    py_objs,            \* the PyRegionObject of every object: state and name
    py_call,            \* the last call of the binding and its arguments
    py_ret              \* what that call came to

py_vars == <<py_table, py_objs, py_call, py_ret>>

\* The handlers of the region events: what the notifications sent so far
\* come to for every entity and region name
VARIABLE heard

\* the variables of the specifications other than the three of field.c
rest_vars == <<region_vars, id_vars, job_vars, open_vars, dir_vars, py_vars, heard>>

\* what the calls of region.c and the calls of N_FlowField_ID leave alone
region_others == <<chunk, chunk_coord, faction_id, flow_vars, los_vars, line_vars,
                   id_vars, job_vars, open_vars, dir_vars>>
id_others == <<chunk, chunk_coord, faction_id, flow_vars, los_vars, line_vars,
               region_vars, job_vars, open_vars, dir_vars, py_vars, heard>>
job_others == <<chunk, chunk_coord, faction_id, flow_vars, los_vars, line_vars,
                region_vars, id_vars, open_vars, dir_vars, py_vars, heard>>
open_others == <<chunk, chunk_coord, faction_id, flow_vars, los_vars, line_vars,
                 region_vars, id_vars, job_vars, dir_vars, py_vars, heard>>
dir_others == <<chunk, chunk_coord, faction_id, flow_vars, los_vars, line_vars,
                region_vars, id_vars, job_vars, open_vars, py_vars, heard>>
\* what the calls of py_region.c leave alone beside the state of region.c
py_others == <<chunk, chunk_coord, faction_id, flow_vars, los_vars, line_vars,
               id_vars, job_vars, open_vars, dir_vars, heard>>

vars == <<chunk, chunk_coord, faction_id, flow_vars, los_vars, line_vars, rest_vars>>

(***************************************************************************)
(* Collaborators outside field.c                                           *)
(***************************************************************************)
\* Diplomacy table: faction 0 and faction 1 are at war, every other pair is
\* at peace.
G_GetDiplomacyWar(a, b) == {a, b} = {0, 1}

G_GetEnemyFactions(fid) == {f \in Factions : G_GetDiplomacyWar(fid, f)}

\* 4-adjacency of two tiles
Adjacent(a, b) == abs(a[1] - b[1]) + abs(a[2] - b[2]) = 1

\* The tiles of S connected to a tile of start by 4-adjacent steps inside S
RECURSIVE Component(_, _)
Component(start, S) ==
    LET more == {n \in S \ start : \E s \in start : Adjacent(s, n)}
    IN  IF more = {} THEN start ELSE Component(start \cup more, S)

TileIdx(t) == t[1] * FIELD_RES_C + t[2]

SetMin(S) == CHOOSE x \in S : \A y \in S : x <= y

\* Island labels: a label per class of mutually reachable tiles of S,
\* ISLAND_NONE outside S.
IslandLabels(S) ==
    [t \in Tiles |->
        IF t \in S
        THEN SetMin({TileIdx(u) : u \in Component({t}, S)})
        ELSE ISLAND_NONE]

(***************************************************************************)
(* Static helpers of field.c                                               *)
(***************************************************************************)
field_compare_tiles(a, b) == ~((b[1] = a[1]) /\ (b[2] = a[2]))

field_tile_passable(ch, tile) ==
    IF ch.cost_base[tile] = COST_IMPASSABLE THEN FALSE
    ELSE IF ch.blockers[tile] > 0 THEN FALSE
    ELSE TRUE

field_tile_passable_no_enemies(ch, tile, enemies) ==
    IF ch.cost_base[tile] = COST_IMPASSABLE THEN FALSE
    ELSE LET enemies_only ==
                 \A i \in Factions : ~(i \in ch.factions[tile] /\ ~(i \in enemies))
         IN  IF enemies_only THEN TRUE
             ELSE IF ch.blockers[tile] > 0 THEN FALSE
             ELSE TRUE

\* The passability test every caller selects by faction_id
tile_passable_for(ch, fid, tile) ==
    IF fid = FACTION_ID_NONE
    THEN field_tile_passable(ch, tile)
    ELSE field_tile_passable_no_enemies(ch, tile, G_GetEnemyFactions(fid))

InBounds(r, c) == r >= 0 /\ r < FIELD_RES_R /\ c >= 0 /\ c < FIELD_RES_C

\* The (r, c) offsets the double loop visits that are neither the centre
\* nor a diagonal, in loop order.
CardinalDeltas == << <<-1, 0>>, <<0, -1>>, <<0, 1>>, <<1, 0>> >>

RECURSIVE neighbours_from(_, _, _, _, _)
neighbours_from(ch, coord, only_passable, fid, i) ==
    IF i > Len(CardinalDeltas) THEN << >>
    ELSE LET abs_r == coord[1] + CardinalDeltas[i][1]
             abs_c == coord[2] + CardinalDeltas[i][2]
             rest  == neighbours_from(ch, coord, only_passable, fid, i + 1)
         IN  IF ~InBounds(abs_r, abs_c) THEN rest
             ELSE IF only_passable /\ ~tile_passable_for(ch, fid, <<abs_r, abs_c>>)
             THEN rest
             ELSE << [coord |-> <<abs_r, abs_c>>,
                      cost  |-> IF ch.blockers[<<abs_r, abs_c>>] > 0
                                THEN COST_IMPASSABLE
                                ELSE ch.cost_base[<<abs_r, abs_c>>]] >> \o rest

\* field_neighbours_grid without the COST_IMPASSABLE cost of blocked tiles
field_neighbours_grid_base_cost(ch, coord, only_passable, fid) ==
    LET nbs == neighbours_from(ch, coord, only_passable, fid, 1)
    IN  [i \in 1 .. Len(nbs) |->
            [coord |-> nbs[i].coord, cost |-> ch.cost_base[nbs[i].coord]]]

field_neighbours_grid(ch, coord, only_passable, fid) ==
    neighbours_from(ch, coord, only_passable, fid, 1)

(***************************************************************************)
(* The priority queue of coords (lib/public/pqueue.h): a min-heap keyed by *)
(* priority; which of several entries of least priority is popped is left  *)
(* open.                                                                   *)
(***************************************************************************)
pq_size(q) == BagCardinality(q)

pq_coord_push(q, prio, elem) == q (+) SetToBag({[prio |-> prio, elem |-> elem]})

pq_coord_contains(q, elem) ==
    \E e \in BagToSet(q) : ~field_compare_tiles(e.elem, elem)

\* the entries pq_coord_pop may return
pq_coord_top(q) ==
    {e \in BagToSet(q) : \A f \in BagToSet(q) : e.prio <= f.prio}

pq_coord_remove(q, e) == q (-) SetToBag({e})

RECURSIVE pq_push_all(_, _, _)
pq_push_all(q, seeds, i) ==
    IF i > Len(seeds) THEN q
    ELSE pq_push_all(pq_coord_push(q, 0, seeds[i]), seeds, i + 1)

(***************************************************************************)
(* Integration field                                                       *)
(***************************************************************************)
\* relax_neighbour overwriting the value of a neighbour that is queued
relax_neighbour_overwrites_queued(st, curr, nb) ==
    LET total_cost == st.intf[curr] + nb.cost
    IN  IF pq_coord_contains(st.q, nb.coord)
        THEN [st EXCEPT !.intf[nb.coord] = total_cost]
        ELSE IF total_cost < st.intf[nb.coord]
        THEN [intf |-> [st.intf EXCEPT ![nb.coord] = total_cost],
              q    |-> pq_coord_push(st.q, total_cost, nb.coord)]
        ELSE st

\* One neighbour of the popped coord: the body of the for loop
relax_neighbour(st, curr, nb) ==
    LET total_cost == st.intf[curr] + nb.cost
    IN  IF total_cost < st.intf[nb.coord]
        THEN [intf |-> [st.intf EXCEPT ![nb.coord] = total_cost],
              q    |-> IF ~pq_coord_contains(st.q, nb.coord)
                       THEN pq_coord_push(st.q, total_cost, nb.coord)
                       ELSE st.q]
        ELSE st

RECURSIVE relax_all(_, _, _, _)
relax_all(st, curr, nbs, i) ==
    IF i > Len(nbs) THEN st
    ELSE relax_all(relax_neighbour(st, curr, nbs[i]), curr, nbs, i + 1)

\* One iteration of the while loop of field_build_integration, after the pop
field_build_integration(st, ch, fid, curr) ==
    relax_all(st, curr, field_neighbours_grid(ch, curr, TRUE, fid), 1)

\* The neighbours field_build_integration_nonpass does not skip
nonpass_neighbours(ch, curr, fid) ==
    SelectSeq(field_neighbours_grid(ch, curr, FALSE, fid),
              LAMBDA nb : ~field_tile_passable(ch, nb.coord))

\* One iteration of the while loop of field_build_integration_nonpass
\* field_build_integration_nonpass that relaxes every neighbour, passable or not
field_build_integration_nonpass_all(st, ch, fid, curr) ==
    relax_all(st, curr, field_neighbours_grid(ch, curr, FALSE, fid), 1)

field_build_integration_nonpass(st, ch, fid, curr) ==
    relax_all(st, curr, nonpass_neighbours(ch, curr, fid), 1)

\* The integration field every public function starts from
InfinityField == [t \in Tiles |-> INFINITY]

RECURSIVE seed_field(_, _, _)
seed_field(intf, seeds, i) ==
    IF i > Len(seeds) THEN intf
    ELSE seed_field([intf EXCEPT ![seeds[i]] = 0], seeds, i + 1)

(***************************************************************************)
(* Flow field                                                              *)
(***************************************************************************)
\* The bound of the column in the last test of field_flow_dir, the one for
\* the south-east: FIELD_RES_R - 1. The bound of the rows, not of the columns
se_column_bound_columns(rows, cols) == cols - 1

se_column_bound(rows, cols) == rows - 1

\* field_flow_dir for a field of rows x cols tiles
flow_dir(rows, cols, intf, coord) ==
    LET r  == coord[1]
        c  == coord[2]
        m0 == INFINITY
        m1 == IF r > 0 THEN MIN(m0, intf[<<r - 1, c>>]) ELSE m0
        m2 == IF r < (rows - 1) THEN MIN(m1, intf[<<r + 1, c>>]) ELSE m1
        m3 == IF c > 0 THEN MIN(m2, intf[<<r, c - 1>>]) ELSE m2
        m4 == IF c < (cols - 1) THEN MIN(m3, intf[<<r, c + 1>>]) ELSE m3
        m5 == IF r > 0 /\ c > 0
                 /\ intf[<<r - 1, c>>] < INFINITY
                 /\ intf[<<r, c - 1>>] < INFINITY
              THEN MIN(m4, intf[<<r - 1, c - 1>>]) ELSE m4
        m6 == IF r > 0 /\ c < (cols - 1)
                 /\ intf[<<r - 1, c>>] < INFINITY
                 /\ intf[<<r, c + 1>>] < INFINITY
              THEN MIN(m5, intf[<<r - 1, c + 1>>]) ELSE m5
        m7 == IF r < (rows - 1) /\ c > 0
                 /\ intf[<<r + 1, c>>] < INFINITY
                 /\ intf[<<r, c - 1>>] < INFINITY
              THEN MIN(m6, intf[<<r + 1, c - 1>>]) ELSE m6
        min_cost ==
              IF r < (rows - 1) /\ c < (cols - 1)
                 /\ intf[<<r + 1, c>>] < INFINITY
                 /\ intf[<<r, c + 1>>] < INFINITY
              THEN MIN(m7, intf[<<r + 1, c + 1>>]) ELSE m7
    IN  IF r > 0 /\ intf[<<r - 1, c>>] = min_cost THEN FD_N
        ELSE IF r < (rows - 1) /\ intf[<<r + 1, c>>] = min_cost THEN FD_S
        ELSE IF c < (cols - 1) /\ intf[<<r, c + 1>>] = min_cost THEN FD_E
        ELSE IF c > 0 /\ intf[<<r, c - 1>>] = min_cost THEN FD_W
        ELSE IF r > 0 /\ c > 0 /\ intf[<<r - 1, c - 1>>] = min_cost THEN FD_NW
        ELSE IF r > 0 /\ c < (cols - 1) /\ intf[<<r - 1, c + 1>>] = min_cost
        THEN FD_NE
        ELSE IF r < (rows - 1) /\ c > 0 /\ intf[<<r + 1, c - 1>>] = min_cost
        THEN FD_SW
        ELSE IF r < (rows - 1) /\ c < se_column_bound(rows, cols)
                /\ intf[<<r + 1, c + 1>>] = min_cost
        THEN FD_SE
        ELSE 0

\* field_flow_dir pointing south wherever there is a row to the south
field_flow_dir_south_always(intf, coord) ==
    IF coord[1] < FIELD_RES_R - 1 THEN FD_S
    ELSE flow_dir(FIELD_RES_R, FIELD_RES_C, intf, coord)

\* field_flow_dir taking north whenever the tile to the north is finite
field_flow_dir_north_first(intf, coord) ==
    IF coord[1] > 0 /\ intf[<<coord[1] - 1, coord[2]>>] < INFINITY THEN FD_N
    ELSE flow_dir(FIELD_RES_R, FIELD_RES_C, intf, coord)

field_flow_dir(intf, coord) == flow_dir(FIELD_RES_R, FIELD_RES_C, intf, coord)

\* field_build_flow clearing the tiles the wavefront did not reach
field_build_flow_clears_unreached(intf, field) ==
    [t \in Tiles |->
        IF intf[t] = INFINITY THEN FD_NONE
        ELSE IF intf[t] = 0 THEN FD_NONE
        ELSE flow_dir(FIELD_RES_R, FIELD_RES_C, intf, t)]

\* field_build_flow skipping the tiles of integration value 0
field_build_flow_skips_seeds(intf, field) ==
    [t \in Tiles |->
        IF intf[t] = INFINITY THEN field[t]
        ELSE IF intf[t] = 0 THEN field[t]
        ELSE flow_dir(FIELD_RES_R, FIELD_RES_C, intf, t)]

field_build_flow(intf, field) ==
    [t \in Tiles |->
        IF intf[t] = INFINITY THEN field[t]
        ELSE IF intf[t] = 0 THEN FD_NONE
        ELSE field_flow_dir(intf, t)]

\* field_fixup_portal_edges with the directions of left and right exchanged
field_fixup_portal_edges_mirrored(intf, field, port) ==
    LET up    == port.connected[1] < port.chunk[1]
        down  == port.connected[1] > port.chunk[1]
        left  == port.connected[2] < port.chunk[2]
        right == port.connected[2] > port.chunk[2]
    IN  [t \in Tiles |->
            IF intf[t] = 0
            THEN IF up THEN FD_N
                 ELSE IF down THEN FD_S
                 ELSE IF left THEN FD_E
                 ELSE IF right THEN FD_W
                 ELSE field[t]
            ELSE field[t]]

field_fixup_portal_edges(intf, field, port) ==
    LET up    == port.connected[1] < port.chunk[1]
        down  == port.connected[1] > port.chunk[1]
        left  == port.connected[2] < port.chunk[2]
        right == port.connected[2] > port.chunk[2]
    IN  [t \in Tiles |->
            IF intf[t] = 0
            THEN IF up THEN FD_N
                 ELSE IF down THEN FD_S
                 ELSE IF left THEN FD_W
                 ELSE IF right THEN FD_E
                 ELSE field[t]
            ELSE field[t]]

RECURSIVE fixup_mask(_, _, _, _, _)
fixup_mask(mask, intf, field, ch, i) ==
    IF i >= Len(ch.portals) THEN field
    ELSE IF ~(i \in mask) THEN fixup_mask(mask, intf, field, ch, i + 1)
    ELSE fixup_mask(mask, intf,
                    field_fixup_portal_edges(intf, field, ch.portals[i + 1]),
                    ch, i + 1)

field_fixup(target, intf, field, ch) ==
    IF target.type = "TARGET_PORTAL"
    THEN field_fixup_portal_edges(intf, field, ch.portals[target.port + 1])
    ELSE IF target.type = "TARGET_PORTALMASK"
    THEN fixup_mask(target.portalmask, intf, field, ch, 0)
    ELSE field

(***************************************************************************)
(* Initial frontier of a target                                            *)
(***************************************************************************)
\* the first n entries of seq (all of it when n is not below its length)
Take(seq, n) == IF n >= Len(seq) THEN seq ELSE SubSeq(seq, 1, n)

\* the tiles of the field in row-major order
RowMajor == [i \in 1 .. (FIELD_RES_R * FIELD_RES_C) |->
                <<(i - 1) \div FIELD_RES_C, (i - 1) % FIELD_RES_C>>]

\* the tiles of the rectangle endpoints[0] .. endpoints[1], rows outermost
PortalTiles(port) ==
    SelectSeq(RowMajor,
              LAMBDA t : /\ port.endpoints[1][1] <= t[1] /\ t[1] <= port.endpoints[2][1]
                         /\ port.endpoints[1][2] <= t[2] /\ t[2] <= port.endpoints[2][2])

field_tile_initial_frontier(tile, ch, ignoreblock, fid, maxout) ==
    IF maxout = 0 THEN << >>
    ELSE IF ignoreblock THEN <<tile>>
    ELSE IF ~tile_passable_for(ch, fid, tile) THEN << >>
    ELSE <<tile>>

field_portal_initial_frontier(port, ch, ignoreblock, fid, maxout) ==
    IF maxout = 0 THEN << >>
    ELSE Take(SelectSeq(PortalTiles(port), LAMBDA t : tile_passable_for(ch, fid, t)),
              maxout)

field_enemy_ent(fid, ent) ==
    IF ent.faction = fid THEN FALSE
    ELSE IF ~ent.combatable THEN FALSE
    ELSE IF ~G_GetDiplomacyWar(fid, ent.faction) THEN FALSE
    ELSE IF ~ent.visible THEN FALSE
    ELSE TRUE

field_enemies_initial_frontier(enemies, ch, population, maxout) ==
    LET has_enemy == UNION {e.tiles : e \in {x \in population :
                                               field_enemy_ent(enemies.faction_id, x)}}
    IN  Take(SelectSeq(RowMajor, LAMBDA t : t \in has_enemy), maxout)

RECURSIVE portalmask_from(_, _, _, _, _, _)
portalmask_from(mask, ch, ignoreblock, fid, maxout, i) ==
    IF i >= Len(ch.portals) THEN << >>
    ELSE IF ~(i \in mask) THEN portalmask_from(mask, ch, ignoreblock, fid, maxout, i + 1)
    ELSE LET added == field_portal_initial_frontier(ch.portals[i + 1], ch, ignoreblock,
                                                    fid, maxout)
         IN  added \o portalmask_from(mask, ch, ignoreblock, fid,
                                      maxout - Len(added), i + 1)

field_portalmask_initial_frontier(mask, ch, ignoreblock, fid, maxout) ==
    portalmask_from(mask, ch, ignoreblock, fid, maxout, 0)

field_initial_frontier(target, ch, population, ignoreblock, fid, maxout) ==
    IF target.type = "TARGET_PORTAL"
    THEN field_portal_initial_frontier(ch.portals[target.port + 1], ch, ignoreblock,
                                       fid, maxout)
    ELSE IF target.type = "TARGET_TILE"
    THEN field_tile_initial_frontier(target.tile, ch, ignoreblock, fid, maxout)
    ELSE IF target.type = "TARGET_ENEMIES"
    THEN field_enemies_initial_frontier(target.enemies, ch, population, maxout)
    ELSE field_portalmask_initial_frontier(target.portalmask, ch, ignoreblock, fid,
                                           maxout)

(***************************************************************************)
(* Breadth-first searches of the fallback builders                         *)
(***************************************************************************)
manhattan_dist(a, b) == abs(a[1] - b[1]) + abs(a[2] - b[2])

\* the deltas array of both searches
BfsDeltas == << <<0, -1>>, <<0, 1>>, <<-1, 0>>, <<1, 0>> >>

\* the neighbours of curr the for loop pushes, in order
bfs_unvisited(curr, visited) ==
    SelectSeq([i \in 1 .. Len(BfsDeltas) |->
                  <<curr[1] + BfsDeltas[i][1], curr[2] + BfsDeltas[i][2]>>],
              LAMBDA n : InBounds(n[1], n[2]) /\ ~(n \in visited))

SeqRange(seq) == {seq[i] : i \in 1 .. Len(seq)}

RECURSIVE closest_loop(_, _, _, _, _, _, _, _, _)
closest_loop(ch, target, local_iid, global_iid, maxout, q, visited, out, first) ==
    IF q = << >> THEN out
    ELSE LET curr     == Head(q)
             pushed   == bfs_unvisited(curr, visited)
             q2       == Tail(q) \o pushed
             visited2 == visited \cup SeqRange(pushed)
             mh_dist  == manhattan_dist(target, curr)
         IN  IF first > -1 /\ mh_dist > first THEN out
             ELSE IF \/ ch.cost_base[curr] = COST_IMPASSABLE
                     \/ ch.blockers[curr] > 0
                     \/ (global_iid # ISLAND_NONE /\ ch.islands[curr] # global_iid)
                     \/ (local_iid # ISLAND_NONE /\ ch.local_islands[curr] # local_iid)
             THEN closest_loop(ch, target, local_iid, global_iid, maxout, q2, visited2,
                               out, first)
             ELSE IF Len(out) + 1 = maxout THEN Append(out, curr)
             ELSE closest_loop(ch, target, local_iid, global_iid, maxout, q2, visited2,
                               Append(out, curr),
                               IF first = -1 THEN mh_dist ELSE first)

\* field_closest_tiles_local without the test of the global island
field_closest_tiles_local_any_island(ch, target, local_iid, global_iid, maxout) ==
    closest_loop(ch, target, local_iid, ISLAND_NONE, maxout, <<target>>, {target},
                 << >>, -1)

field_closest_tiles_local(ch, target, local_iid, global_iid, maxout) ==
    closest_loop(ch, target, local_iid, global_iid, maxout, <<target>>, {target},
                 << >>, -1)

RECURSIVE passable_loop(_, _, _, _, _)
passable_loop(ch, maxout, q, visited, out) ==
    IF q = << >> THEN out
    ELSE LET curr == Head(q)
         IN  IF field_tile_passable(ch, curr)
             THEN IF Len(out) + 1 = maxout THEN Append(out, curr)
                  ELSE passable_loop(ch, maxout, Tail(q), visited, Append(out, curr))
             ELSE LET pushed == bfs_unvisited(curr, visited)
                  IN  passable_loop(ch, maxout, Tail(q) \o pushed,
                                    visited \cup SeqRange(pushed), out)

\* field_passable_frontier returning at the first passable tile it meets
field_passable_frontier_first_only(ch, start, maxout) ==
    passable_loop(ch, 1, <<start>>, {start}, << >>)

field_passable_frontier(ch, start, maxout) ==
    passable_loop(ch, maxout, <<start>>, {start}, << >>)

\* The loop of N_FlowFieldUpdateIslandToNearest that builds new_init_frontier
RECURSIVE reseed_loop(_, _, _, _, _, _)
reseed_loop(ch, local_iid, seeds, i, min_mh_dist, new_init) ==
    IF i > Len(seeds) THEN new_init
    ELSE LET curr      == seeds[i]
             curr_giid == ch.islands[curr]
             curr_liid == ch.local_islands[curr]
         IN  IF curr_liid = local_iid
             THEN reseed_loop(ch, local_iid, seeds, i + 1, 0,
                              Append(IF min_mh_dist > 0 THEN << >> ELSE new_init, curr))
             ELSE LET tmp == field_closest_tiles_local(ch, curr, local_iid, curr_giid,
                                 FIELD_RES_R * FIELD_RES_C - Len(new_init))
                  IN  IF Len(tmp) = 0
                      THEN reseed_loop(ch, local_iid, seeds, i + 1, min_mh_dist, new_init)
                      ELSE LET mh_dist == manhattan_dist(tmp[1], curr)
                               min2    == IF mh_dist < min_mh_dist THEN mh_dist
                                          ELSE min_mh_dist
                               kept    == IF mh_dist < min_mh_dist THEN << >>
                                          ELSE new_init
                           IN  IF mh_dist > min2
                               THEN reseed_loop(ch, local_iid, seeds, i + 1, min2, kept)
                               ELSE reseed_loop(ch, local_iid, seeds, i + 1, min2,
                                                kept \o tmp)

island_new_init_frontier(ch, local_iid, seeds) ==
    reseed_loop(ch, local_iid, seeds, 1, INT_MAX, << >>)

(***************************************************************************)
(* Chunks, targets and entity populations the model draws from             *)
(***************************************************************************)
\* cost_base of the traversable tiles: 1, 2 or 3
CostPattern(t) == 1 + ((t[1] + 2 * t[2]) % 3)

ThisChunk == <<1, 1>>

Portal(e0, e1, to) ==
    [chunk |-> ThisChunk, endpoints |-> <<e0, e1>>, connected |-> to]

\* portal 0 on the north edge and portal 1 on the west edge
PortalsNW ==
    << Portal(<<0, 1>>, <<0, FIELD_RES_C - 1>>, <<ThisChunk[1] - 1, ThisChunk[2]>>),
       Portal(<<1, 0>>, <<FIELD_RES_R - 1, 0>>, <<ThisChunk[1], ThisChunk[2] - 1>>) >>

\* portal 0 on the south edge and portal 1 on the east edge
PortalsSE ==
    << Portal(<<FIELD_RES_R - 1, 0>>, <<FIELD_RES_R - 1, FIELD_RES_C - 2>>,
              <<ThisChunk[1] + 1, ThisChunk[2]>>),
       Portal(<<0, FIELD_RES_C - 1>>, <<FIELD_RES_R - 2, FIELD_RES_C - 1>>,
              <<ThisChunk[1], ThisChunk[2] + 1>>) >>

\* The factions that occupy tile t when a blocker stands on it: every subset
\* of the factions occurs on some tile.
Occupants(t) == {f \in Factions : (TileIdx(t) \div (2 ^ f)) % 2 = 1}

\* A chunk with the tiles of imp impassable and a blocker on every tile of
\* blk, occupied by Occupants. Local islands follow passability;
\* global islands follow the terrain, and are one island when the parts of
\* the chunk are joined through other chunks.
MakeChunk(imp, blk, joined, portals) ==
    LET terrain == Tiles \ imp
    IN  [cost_base     |-> [t \in Tiles |-> IF t \in imp THEN COST_IMPASSABLE
                                            ELSE CostPattern(t)],
         blockers      |-> [t \in Tiles |-> IF t \in blk THEN 1 ELSE 0],
         factions      |-> [t \in Tiles |-> IF t \in blk THEN Occupants(t) ELSE {}],
         islands       |-> IF joined
                           THEN [t \in Tiles |-> IF t \in terrain
                                                 THEN SetMin({TileIdx(u) : u \in terrain})
                                                 ELSE ISLAND_NONE]
                           ELSE IslandLabels(terrain),
         local_islands |-> IslandLabels(terrain \ blk),
         portals       |-> portals]

Diagonal == {t \in Tiles : t[1] = t[2]}

\* the tiles a terrain chunk may have impassable
WallTiles == {t \in Tiles : (t[1] + t[2]) % 2 = 1 \/ t = <<1, 1>>}

\* terrain chunks: no portal, no blocker
TerrainChunks ==
    {MakeChunk(imp, {}, joined, << >>) :
        imp \in {S \in SUBSET WallTiles : Cardinality(S) <= MaxImpassable},
        joined \in BOOLEAN}

\* the corner tile <<0, 0>> and the tiles around it
Corner == {t \in Tiles : t[1] + t[2] <= 1}

BlockerSets(portals) ==
    { {}, SeqRange(PortalTiles(portals[1])), Diagonal,
      {t \in Tiles : t[1] = 1}, Corner }

\* portal chunks: flat terrain, two portals, one group of blockers
PortalChunks ==
    {MakeChunk({}, blk, TRUE, portals) :
        portals \in {PortalsNW, PortalsSE},
        blk \in BlockerSets(PortalsNW) \cup BlockerSets(PortalsSE)}

\* a chunk with a blocker on every tile
BlockedChunk == MakeChunk({}, Tiles, TRUE, << >>)

NoTarget ==
    [type |-> "NONE", tile |-> <<0, 0>>, port |-> 0, portalmask |-> {},
     enemies |-> [faction_id |-> FACTION_ID_NONE]]

TileTarget(t) == [NoTarget EXCEPT !.type = "TARGET_TILE", !.tile = t]

PortalTarget(i) == [NoTarget EXCEPT !.type = "TARGET_PORTAL", !.port = i]

PortalMaskTarget(m) == [NoTarget EXCEPT !.type = "TARGET_PORTALMASK", !.portalmask = m]

EnemiesTarget(f) ==
    [NoTarget EXCEPT !.type = "TARGET_ENEMIES", !.enemies = [faction_id |-> f]]

\* the targets that need no entity: every tile of a chunk without portals,
\* the diagonal tiles, the portals and the portal masks of one with portals
Targets(ch) ==
    {TileTarget(t) : t \in IF Len(ch.portals) = 0 THEN Tiles ELSE Diagonal}
    \cup {PortalTarget(i) : i \in 0 .. Len(ch.portals) - 1}
    \cup {PortalMaskTarget(m) : m \in (SUBSET (0 .. Len(ch.portals) - 1)) \ {{}}}

\* a unit of faction f standing on tile t
Unit(t, f) ==
    [uid |-> TileIdx(t), faction |-> f, combatable |-> TRUE, visible |-> TRUE,
     tiles |-> {t}]

EntityPopulations ==
    {P \in SUBSET {Unit(t, IF t = <<1, 1>> THEN 2 ELSE 1) : t \in Diagonal} :
        Cardinality(P) >= 1 /\ Cardinality(P) <= MaxEnts}

\* the four corner tiles of the chunk
CornerTiles ==
    {t \in Tiles : t[1] \in {0, FIELD_RES_R - 1} /\ t[2] \in {0, FIELD_RES_C - 1}}

\* flat terrain with a unit of faction 1 standing on every tile of S, which
\* it blocks and occupies
UnitsChunk(S) ==
    [MakeChunk({}, S, TRUE, << >>) EXCEPT
        !.factions = [t \in Tiles |-> IF t \in S THEN {1} ELSE {}]]

\* the units that stand on the blocked tiles of such a chunk
UnitsOn(ch) == {Unit(t, 1) : t \in {u \in Tiles : ch.blockers[u] > 0}}

\* start_coord while N_FlowFieldUpdateToNearestPathable is not running
NoStart == <<-1, -1>>

\* prev_los == NULL
NoPrevLos == [chunk |-> <<-1, -1>>, field |-> << >>]

\* out_los->field after the memset
LosZeroField == [t \in LosTiles |-> [visible |-> FALSE, wavefront_blocked |-> FALSE]]

LosInfinityField == [t \in LosTiles |-> INFINITY]

\* A chunk of the LOS resolution: terrain of cost 1 with impassable tiles imp,
\* tiles of cost 2 in rough and units of faction 1 standing on blk
MakeLosChunk(imp, rough, blk) ==
    [cost_base |-> [t \in LosTiles |-> IF t \in imp THEN COST_IMPASSABLE
                                       ELSE IF t \in rough THEN 2 ELSE 1],
     blockers  |-> [t \in LosTiles |-> IF t \in blk THEN 1 ELSE 0],
     factions  |-> [t \in LosTiles |-> IF t \in blk THEN {1} ELSE {}]]

\* two walls with a gap along the top row
LosWalls == {<<1, 1>>, <<2, 2>>, <<3, 1>>, <<1, 4>>, <<2, 4>>, <<3, 4>>}

LosPair == {<<1, 2>>, <<2, 2>>}

LosChunks ==
    {MakeLosChunk({}, {}, {}), MakeLosChunk(LosPair, {}, {}),
     MakeLosChunk(LosWalls, {}, {}), MakeLosChunk({}, {<<1, 2>>}, {}),
     MakeLosChunk({}, {}, LosPair)}

\* the targets inside the chunk the field is made for
LosDestTargets ==
    {[chunk |-> ThisChunk, tile |-> t] : t \in {<<3, 0>>, <<1, 2>>, <<0, 5>>}}

\* the targets in another chunk
LosFarTargets ==
    {[chunk |-> <<0, 0>>, tile |-> <<0, 5>>], [chunk |-> <<2, 2>>, tile |-> <<3, 0>>]}

(***************************************************************************)
(* region.c: the world the regions live in                                 *)
(***************************************************************************)
\* The map is one row of MapChunks chunks and every position lies on one
\* line of it: a position is its X coordinate, in position units.
Positions == 0 .. MapChunks * ChunkLen - 1

\* The entities: uint32_t uids as their 32-bit patterns, so that a uid of
\* 2^31 or more is a negative number here. BigUid is 0x80000002.
BigUid == INT_MIN + 2

Uids == {1, 2, BigUid}

\* entity 2 carries ENTITY_FLAG_ZOMBIE or ENTITY_FLAG_MARKER
ZombieOrMarker(uid) == uid = 2

\* a < b for two uint32_t
uint32_lt(a, b) == IF (a < 0) = (b < 0) THEN a < b ELSE b < 0

\* a - b of two uint32_t, converted to int
sub32(a, b) ==
    IF a >= 0 /\ b < 0 /\ a > INT_MAX + b THEN (a + INT_MIN) - (b - INT_MIN)
    ELSE IF a < 0 /\ b > 0 /\ a < INT_MIN + b THEN (a - INT_MIN) - (b + INT_MIN)
    ELSE a - b

\* the chunk a point lies in (M_Tile_DescForPoint2D), or -1 outside the map
ChunkOfPoint(x) == IF x \in Positions THEN x \div ChunkLen ELSE -1

\* the positions of a chunk (M_Tile_ChunkBounds)
ChunkPositions(c) == c * ChunkLen .. (c + 1) * ChunkLen - 1

\* ceil(a / b) for a >= 0 and b > 0
CeilDiv(a, b) == (a + b - 1) \div b

\* the entities the position index holds inside a circle and inside a
\* rectangle, as the array the query fills
SeqOfUids(S) ==
    CHOOSE q \in [1 .. Cardinality(S) -> S] :
        \A i, j \in 1 .. Cardinality(S) : i < j => uint32_lt(q[i], q[j])

G_Pos_EntsInCircle(pos, radius, where) ==
    SeqOfUids({u \in Uids : abs(where[u] - pos) <= radius})

G_Pos_EntsInRect(x_min, x_max, where) ==
    SeqOfUids({u \in Uids : x_min <= where[u] /\ where[u] <= x_max})

(***************************************************************************)
(* FlowField identity (ff_id_t)                                            *)
(***************************************************************************)
\* the values of the target type tag, in the order of the enumeration
TARGET_PORTAL == 0
TARGET_TILE == 1
TARGET_ENEMIES == 2
TARGET_PORTALMASK == 3

target_type(target) ==
    CASE target.type = "TARGET_PORTAL" -> TARGET_PORTAL
      [] target.type = "TARGET_TILE" -> TARGET_TILE
      [] target.type = "TARGET_ENEMIES" -> TARGET_ENEMIES
      [] target.type = "TARGET_PORTALMASK" -> TARGET_PORTALMASK

\* A uint64_t is its sixteen 4-bit digits, digit 0 the least significant.
Digits == 0 .. 15

\* digit k of (uint64_t)v for a 32-bit int v: a negative v is sign-extended
Digit(v, k) ==
    IF v >= 0
    THEN IF k < 8 THEN (v \div (16 ^ k)) % 16 ELSE 0
    ELSE IF k >= 8 THEN 15
    ELSE IF k = 7 THEN (((v - INT_MIN) \div (16 ^ 7)) % 16) + 8
    ELSE ((v - INT_MIN) \div (16 ^ k)) % 16

\* ((uint64_t)v) << bits, for a multiple of 4 bits: the digits shifted out
\* at the top are lost
shl64(v, bits) ==
    [k \in Digits |-> IF k >= bits \div 4 THEN Digit(v, k - bits \div 4) ELSE 0]

\* a | b of two 4-bit digits
RECURSIVE or_bits(_, _, _)
or_bits(a, b, n) ==
    IF n = 0 THEN 0
    ELSE (IF a % 2 = 1 \/ b % 2 = 1 THEN 1 ELSE 0)
             + 2 * or_bits(a \div 2, b \div 2, n - 1)

\* digit k of the bitwise or of the uint64_t values parts[i], parts[i + 1], ...
RECURSIVE or_digit(_, _, _)
or_digit(parts, k, i) ==
    IF i > Len(parts) THEN 0
    ELSE or_bits(parts[i][k], or_digit(parts, k, i + 1), 4)

or64_all(parts) == [k \in Digits |-> or_digit(parts, k, 1)]

\* 0 as a uint64_t
Zero64 == [k \in Digits |-> 0]

\* The outcome of a call of N_FlowField_ID: the identity returned, or the
\* failure of assert(0)
Returned(id) == [status |-> "returned", id |-> id]
AssertFailed == [status |-> "assert", id |-> Zero64]
NotCalled == [status |-> "none", id |-> Zero64]

\* N_FlowField_ID. With NDEBUG the assertion is compiled out and the
\* function returns 0 where it would fail.
N_FlowField_ID(chunk_c, target, layer, ndebug) ==
    IF target.type = "TARGET_PORTAL"
    THEN Returned(or64_all(<< shl64(layer, 60),
                              shl64(target_type(target), 56),
                              shl64(target.port.endpoints[1][1], 40),
                              shl64(target.port.endpoints[1][2], 32),
                              shl64(target.port.endpoints[2][1], 24),
                              shl64(target.port.endpoints[2][2], 16),
                              shl64(chunk_c[1], 8),
                              shl64(chunk_c[2], 0) >>))
    ELSE IF target.type = "TARGET_TILE"
    THEN Returned(or64_all(<< shl64(layer, 60),
                              shl64(target_type(target), 56),
                              shl64(target.tile[1], 24),
                              shl64(target.tile[2], 16),
                              shl64(chunk_c[1], 8),
                              shl64(chunk_c[2], 0) >>))
    ELSE IF target.type = "TARGET_ENEMIES"
    THEN Returned(or64_all(<< shl64(layer, 60),
                              shl64(target_type(target), 56),
                              shl64(target.enemies.faction_id, 24),
                              shl64(chunk_c[1], 8),
                              shl64(chunk_c[2], 0) >>))
    ELSE IF ndebug THEN Returned(Zero64) ELSE AssertFailed

\* id >> 60 as an enum nav_layer
N_FlowField_Layer(id) == id[15]

\* The triples the identity is asked for: layers below 16, chunk and tile
\* coordinates below 256, the first and the last faction of the engine's 16
IdLayers == {0, 1, 15}
IdCoords == {<<0, 0>>, <<0, 1>>, <<1, 0>>, <<255, 255>>}
IdPortals == {<< <<0, 0>>, <<0, 1>> >>, << <<0, 1>>, <<0, 0>> >>,
              << <<1, 0>>, <<0, 0>> >>, << <<255, 255>>, <<255, 255>> >>}
IdFactions == {0, 15}
IdMasks == {{0}, {1}}

IdTargets ==
    {[type |-> "TARGET_TILE", tile |-> t] : t \in IdCoords}
    \cup {[type |-> "TARGET_PORTAL", port |-> [endpoints |-> e]] : e \in IdPortals}
    \cup {[type |-> "TARGET_ENEMIES", enemies |-> [faction_id |-> f]] : f \in IdFactions}
    \cup {[type |-> "TARGET_PORTALMASK", portalmask |-> m] : m \in IdMasks}

NoIdArgs == [chunk |-> <<0, 0>>, target |-> [type |-> "NONE"], layer |-> 0]

IdIdle ==
    /\ id_args = <<NoIdArgs, NoIdArgs>>
    /\ id_ret = <<NotCalled, NotCalled>>

(***************************************************************************)
(* Concurrent invocations of N_FlowFieldUpdate                             *)
(***************************************************************************)
Jobs == {1, 2}

\* a job before its call: the caller's buffer and no locals yet
IdleJob ==
    [flow              |-> [target |-> NoTarget, field |-> [t \in Tiles |-> FD_NONE]],
     integration_field |-> InfinityField,
     frontier          |-> EmptyBag,
     pc                |-> "idle",
     beside            |-> FALSE]

\* frontier and integration_field are automatic variables of the invocation:
\* a write to them reaches the frame of job j alone
job_write_locals_static(js, j, intf, q) ==
    [k \in Jobs |-> [js[k] EXCEPT !.integration_field = intf, !.frontier = q]]

job_write_locals(js, j, intf, q) ==
    [js EXCEPT ![j].integration_field = intf, ![j].frontier = q]

\* the job ran a step while another invocation was inside the function
job_beside(js, j) ==
    js[j].beside \/ \E k \in Jobs \ {j} : js[k].pc = "integration"

\* field_build_integration run to the end without any other invocation
RECURSIVE run_integration(_, _, _)
run_integration(st, ch, fid) ==
    IF pq_size(st.q) = 0 THEN st.intf
    ELSE LET e == CHOOSE x \in pq_coord_top(st.q) : TRUE
         IN  run_integration(
                 field_build_integration([intf |-> st.intf,
                                          q    |-> pq_coord_remove(st.q, e)],
                                         ch, fid, e.elem),
                 ch, fid)

\* what N_FlowFieldUpdate leaves in a buffer when it runs alone
N_FlowFieldUpdate_alone(ch, fid, target, field) ==
    LET seeds == field_initial_frontier(target, ch, {}, FALSE, fid,
                                        FIELD_RES_R * FIELD_RES_C)
        intf  == run_integration([intf |-> seed_field(InfinityField, seeds, 1),
                                  q    |-> pq_push_all(EmptyBag, seeds, 1)], ch, fid)
    IN  [target |-> target,
         field  |-> field_fixup(target, intf, field_build_flow(intf, field), ch)]

\* the chunks the jobs read
JobChunks ==
    {MakeChunk({<<0, 1>>}, {}, TRUE, << >>),
     MakeChunk({}, {<<1, 1>>}, TRUE, PortalsNW)}

\* the targets the jobs are dispatched for
JobTargets(ch) ==
    {TileTarget(<<0, 0>>), TileTarget(<<2, 2>>)}
    \cup {PortalTarget(i) : i \in 0 .. Len(ch.portals) - 1}

(***************************************************************************)
(* The open chunk: OpenRes x OpenRes tiles of cost 1, nothing on them      *)
(***************************************************************************)
OpenRes == 8

OpenTiles == (0 .. OpenRes - 1) \X (0 .. OpenRes - 1)

OpenChunk ==
    [cost_base |-> [t \in OpenTiles |-> 1],
     blockers  |-> [t \in OpenTiles |-> 0],
     factions  |-> [t \in OpenTiles |-> {}]]

\* the open chunk with the tiles of imp impassable
OpenChunkWith(imp) ==
    [cost_base |-> [t \in OpenTiles |-> IF t \in imp THEN COST_IMPASSABLE ELSE 1],
     blockers  |-> [t \in OpenTiles |-> 0],
     factions  |-> [t \in OpenTiles |-> {}]]

\* an impassable wall on column 3 for the rows 0 .. 4
WallChunk == OpenChunkWith({t \in OpenTiles : t[2] = 3 /\ t[1] <= 4})

\* the tile beyond the wall, and one on the near side
WallTargets == {TileTarget(<<2, 6>>), TileTarget(<<5, 0>>)}

\* the tile the open field is built for, and another one
OpenTargets == {TileTarget(<<4, 4>>), TileTarget(<<0, 0>>)}

\* every (r, c) offset of the double loop but the centre, in loop order
AllDeltas ==
    << <<-1, -1>>, <<-1, 0>>, <<-1, 1>>, <<0, -1>>, <<0, 1>>, <<1, -1>>, <<1, 0>>,
       <<1, 1>> >>

\* the loop of field_neighbours_grid over the offsets deltas, for a field of
\* OpenRes x OpenRes tiles
RECURSIVE open_neighbours_from(_, _, _, _, _, _)
open_neighbours_from(ch, coord, only_passable, fid, deltas, i) ==
    IF i > Len(deltas) THEN << >>
    ELSE LET abs_r == coord[1] + deltas[i][1]
             abs_c == coord[2] + deltas[i][2]
             rest  == open_neighbours_from(ch, coord, only_passable, fid, deltas, i + 1)
         IN  IF abs_r < 0 \/ abs_r >= OpenRes THEN rest
             ELSE IF abs_c < 0 \/ abs_c >= OpenRes THEN rest
             ELSE IF only_passable /\ ~tile_passable_for(ch, fid, <<abs_r, abs_c>>)
             THEN rest
             ELSE << [coord |-> <<abs_r, abs_c>>,
                      cost  |-> IF ch.blockers[<<abs_r, abs_c>>] > 0
                                THEN COST_IMPASSABLE
                                ELSE ch.cost_base[<<abs_r, abs_c>>]] >> \o rest

\* field_neighbours_grid that does not skip the diagonal offsets
field_neighbours_open_diagonal(ch, coord, only_passable, fid) ==
    open_neighbours_from(ch, coord, only_passable, fid, AllDeltas, 1)

\* field_neighbours_grid for a field of OpenRes x OpenRes tiles
field_neighbours_open(ch, coord, only_passable, fid) ==
    open_neighbours_from(ch, coord, only_passable, fid, CardinalDeltas, 1)

\* field_flow_dir looking at the four edge neighbours only
flow_dir_cardinal(rows, cols, intf, coord) ==
    LET r  == coord[1]
        c  == coord[2]
        m1 == IF r > 0 THEN MIN(INFINITY, intf[<<r - 1, c>>]) ELSE INFINITY
        m2 == IF r < (rows - 1) THEN MIN(m1, intf[<<r + 1, c>>]) ELSE m1
        m3 == IF c > 0 THEN MIN(m2, intf[<<r, c - 1>>]) ELSE m2
        min_cost == IF c < (cols - 1) THEN MIN(m3, intf[<<r, c + 1>>]) ELSE m3
    IN  IF r > 0 /\ intf[<<r - 1, c>>] = min_cost THEN FD_N
        ELSE IF r < (rows - 1) /\ intf[<<r + 1, c>>] = min_cost THEN FD_S
        ELSE IF c < (cols - 1) /\ intf[<<r, c + 1>>] = min_cost THEN FD_E
        ELSE IF c > 0 /\ intf[<<r, c - 1>>] = min_cost THEN FD_W
        ELSE 0

\* field_build_flow that never writes a diagonal direction
field_build_flow_open_cardinal(intf, field) ==
    [t \in OpenTiles |->
        IF intf[t] = INFINITY THEN field[t]
        ELSE IF intf[t] = 0 THEN FD_NONE
        ELSE flow_dir_cardinal(OpenRes, OpenRes, intf, t)]

\* field_build_flow for a field of OpenRes x OpenRes tiles
field_build_flow_open(intf, field) ==
    [t \in OpenTiles |->
        IF intf[t] = INFINITY THEN field[t]
        ELSE IF intf[t] = 0 THEN FD_NONE
        ELSE flow_dir(OpenRes, OpenRes, intf, t)]

\* the deltas of a search that also steps diagonally
BfsDeltasDiagonal ==
    << <<0, -1>>, <<0, 1>>, <<-1, 0>>, <<1, 0>>, <<-1, -1>>, <<-1, 1>>, <<1, -1>>,
       <<1, 1>> >>

\* the neighbours of curr the for loop of field_passable_frontier pushes
open_bfs_unvisited(deltas, curr, visited) ==
    SelectSeq([i \in 1 .. Len(deltas) |->
                  <<curr[1] + deltas[i][1], curr[2] + deltas[i][2]>>],
              LAMBDA n : /\ n[1] >= 0 /\ n[1] < OpenRes
                         /\ n[2] >= 0 /\ n[2] < OpenRes
                         /\ ~(n \in visited))

\* the while loop of field_passable_frontier
RECURSIVE open_passable_loop(_, _, _, _, _, _)
open_passable_loop(ch, deltas, maxout, q, visited, out) ==
    IF q = << >> THEN out
    ELSE LET curr == Head(q)
         IN  IF field_tile_passable(ch, curr)
             THEN IF Len(out) + 1 = maxout THEN Append(out, curr)
                  ELSE open_passable_loop(ch, deltas, maxout, Tail(q), visited,
                                          Append(out, curr))
             ELSE LET pushed == open_bfs_unvisited(deltas, curr, visited)
                  IN  open_passable_loop(ch, deltas, maxout, Tail(q) \o pushed,
                                         visited \cup SeqRange(pushed), out)

\* field_passable_frontier searching through the diagonal neighbours as well
field_passable_frontier_open_diagonal(ch, start, maxout) ==
    open_passable_loop(ch, BfsDeltasDiagonal, maxout, <<start>>, {start}, << >>)

\* field_passable_frontier for a field of OpenRes x OpenRes tiles
field_passable_frontier_open(ch, start, maxout) ==
    open_passable_loop(ch, BfsDeltas, maxout, <<start>>, {start}, << >>)

\* one iteration of the while loop of field_build_integration_nonpass
field_build_integration_nonpass_open(st, ch, fid, curr) ==
    relax_all(st, curr,
              SelectSeq(field_neighbours_open(ch, curr, FALSE, fid),
                        LAMBDA nb : ~field_tile_passable(ch, nb.coord)),
              1)

\* the flow loop of N_FlowFieldUpdateToNearestPathable
nearest_pathable_flow_open(intf, field) ==
    [t \in OpenTiles |->
        IF intf[t] = INFINITY THEN field[t]
        ELSE IF intf[t] = 0 THEN field[t]
        ELSE flow_dir(OpenRes, OpenRes, intf, t)]

\* the impassable block of the rows and columns 2 .. 4
BlockTiles == {t \in OpenTiles : t[1] \in 2 .. 4 /\ t[2] \in 2 .. 4}

BlockChunk == OpenChunkWith(BlockTiles)

\* the centre of the block and one of its corners
BlockStarts == {<<3, 3>>, <<2, 2>>}

chebyshev_dist(a, b) ==
    IF abs(a[1] - b[1]) > abs(a[2] - b[2]) THEN abs(a[1] - b[1]) ELSE abs(a[2] - b[2])

(***************************************************************************)
(* State machine                                                           *)
(***************************************************************************)
\* region.c after G_Region_Init, the entities at position 0
RegionIdle ==
    /\ s_regions = << >>
    /\ s_intersecting = [c \in 0 .. MapChunks - 1 |-> << >>]
    /\ s_dirty = {}
    /\ ent_pos = [u \in Uids |-> 0]
    /\ events = EmptyBag
    /\ region_op = "none"
    /\ region_ret = TRUE

\* the state of the specifications other than the three of field.c before
\* any call
\* no invocation of N_FlowFieldUpdate in flight: every job holds a buffer
\* that N_FlowFieldInit has cleared
JobIdle == jobs = [j \in Jobs |-> IdleJob]

\* the buffer of the open chunk as N_FlowFieldInit leaves it, no call running
OpenIdle ==
    /\ open_flow = [target |-> NoTarget, field |-> [t \in OpenTiles |-> FD_NONE]]
    /\ open_integration = [t \in OpenTiles |-> INFINITY]
    /\ open_frontier = EmptyBag
    /\ open_pc = "idle"

\* no call of field_flow_dir on a field of its own
NoDirArgs == [rows |-> 0, cols |-> 0, intf |-> << >>, coord |-> <<0, 0>>]
DirNotCalled == [status |-> "none", dir |-> 0]
DirIdle == dir_args = NoDirArgs /\ dir_ret = DirNotCalled

\* S_Region_Init: an empty table; no object of type pf.Region yet
\* the name of an object whose copy of the name is a null pointer
PyNull == "NULL"
PyObjs == 1 .. MaxPyObjs
PyKeys == {"a", "b", PyNull}
NoPyCall == [op |-> "none", obj |-> 0, name |-> PyNull, copy |-> PyNull,
             status |-> FALSE]
PyIdle ==
    /\ py_table = [k \in PyKeys |-> 0]
    /\ py_objs = [o \in PyObjs |-> [state |-> "unused", name |-> PyNull]]
    /\ py_call = NoPyCall
    /\ py_ret = "none"

\* no notification sent yet
HeardIdle == heard = [p \in Uids \X {"a", "b"} |-> "outside"]

RestIdle == RegionIdle /\ IdIdle /\ JobIdle /\ OpenIdle /\ DirIdle /\ PyIdle /\ HeardIdle

\* the flow field variables before any call
FlowIdle ==
    /\ flow = [target |-> NoTarget, field |-> [t \in Tiles |-> FD_NONE]]
    /\ integration_field = InfinityField
    /\ frontier = EmptyBag
    /\ init_frontier = << >>
    /\ natural = << >>
    /\ retried = FALSE
    /\ caller_iid = ISLAND_NONE
    /\ start_coord = NoStart
    /\ ents = {}
    /\ entry_field = [t \in Tiles |-> FD_NONE]
    /\ op = "none"
    /\ pc = "idle"
    /\ phase = "fresh"

\* the variables of N_LOSFieldCreate while it is not called
LosIdle ==
    /\ los_target = [chunk |-> ThisChunk, tile |-> <<0, 0>>]
    /\ prev_los = NoPrevLos
    /\ out_los = LosZeroField
    /\ los_integration = LosInfinityField
    /\ los_frontier = EmptyBag
    /\ walked = {}
    /\ los_pc = "idle"

\* the variables of the Bresenham walk while it is not called
LineIdle ==
    /\ line = [dx |-> 0, dy |-> 0, sx |-> 1, sy |-> 1, err |-> 0, curr |-> <<0, 0>>]
    /\ line_prev = <<0, 0>>
    /\ line_iters = 0
    /\ line_pc = "idle"

Init ==
    /\ \/ chunk \in TerrainChunks \cup {BlockedChunk} /\ faction_id = FACTION_ID_NONE
       \/ chunk \in PortalChunks /\ faction_id \in {FACTION_ID_NONE, 0}
    /\ chunk_coord = ThisChunk
    /\ FlowIdle
    /\ LosIdle
    /\ LineIdle
    /\ RestIdle

\* the state a public function leaves its locals in for the next call
StartCall(name, seeds) ==
    /\ op' = name
    /\ init_frontier' = seeds
    /\ frontier' = pq_push_all(EmptyBag, seeds, 1)
    /\ integration_field' = seed_field(InfinityField, seeds, 1)
    /\ entry_field' = flow.field

N_FlowFieldInit ==
    /\ UNCHANGED <<los_vars, line_vars, rest_vars>>
    /\ pc = "idle"
    /\ phase # "fresh"
    /\ flow' = [flow EXCEPT !.field = [t \in Tiles |-> FD_NONE]]
    /\ phase' = "fresh"
    /\ UNCHANGED <<chunk, chunk_coord, faction_id, integration_field, frontier,
                   init_frontier, natural, retried, caller_iid, start_coord, ents,
                   entry_field, op, pc>>

\* N_FlowFieldUpdate up to the call of field_build_integration. For an
\* ENEMIES target field_enemies_initial_frontier asserts that the position
\* index has returned an entity; with NDEBUG the assertion is compiled out.
N_FlowFieldUpdate(target, population) ==
    /\ UNCHANGED <<los_vars, line_vars, rest_vars>>
    /\ pc = "idle"
    /\ \/ phase = "fresh"
       \/ phase = "updated" /\ target.type = "TARGET_TILE" /\ target.tile \in Diagonal
    /\ ents' = IF target.type = "TARGET_ENEMIES" THEN population ELSE ents
    /\ \E ndebug \in BOOLEAN :
          IF target.type = "TARGET_ENEMIES" /\ population = {} /\ ~ndebug
          THEN /\ op' = "N_FlowFieldUpdate"
               /\ pc' = "assert"
               /\ UNCHANGED <<flow, integration_field, frontier, init_frontier,
                              natural, retried, entry_field>>
          ELSE /\ LET seeds == field_initial_frontier(target, chunk, ents', FALSE,
                                                      faction_id,
                                                      FIELD_RES_R * FIELD_RES_C)
                  IN  /\ natural' = seeds
                      /\ StartCall("N_FlowFieldUpdate", seeds)
               /\ retried' = FALSE
               /\ flow' = [flow EXCEPT !.target = target]
               /\ pc' = "integration"
    /\ UNCHANGED <<chunk, chunk_coord, faction_id, caller_iid, start_coord, phase>>

\* N_FlowFieldUpdateIslandToNearest up to the call of field_build_integration
N_FlowFieldUpdateIslandToNearest(local_iid) ==
    /\ UNCHANGED <<los_vars, line_vars, rest_vars>>
    /\ pc = "idle"
    /\ phase = "updated"
    /\ LET first  == field_initial_frontier(flow.target, chunk, ents, FALSE, faction_id,
                                            FIELD_RES_R * FIELD_RES_C)
           seeds  == IF Len(first) = 0
                     THEN field_initial_frontier(flow.target, chunk, ents, TRUE,
                                                 faction_id, FIELD_RES_R * FIELD_RES_C)
                     ELSE first
       IN  /\ retried' = (Len(first) = 0)
           /\ natural' = seeds
           /\ StartCall("N_FlowFieldUpdateIslandToNearest",
                        island_new_init_frontier(chunk, local_iid, seeds))
    /\ caller_iid' = local_iid
    /\ pc' = "integration"
    /\ UNCHANGED <<chunk, chunk_coord, faction_id, flow, start_coord, ents, phase>>

\* One iteration of the while loop of field_build_integration
BuildIntegration ==
    /\ UNCHANGED <<los_vars, line_vars, rest_vars>>
    /\ pc = "integration"
    /\ pq_size(frontier) > 0
    /\ \E e \in pq_coord_top(frontier) :
          LET st == field_build_integration(
                        [intf |-> integration_field, q |-> pq_coord_remove(frontier, e)],
                        chunk, faction_id, e.elem)
          IN  /\ integration_field' = st.intf
              /\ frontier' = st.q
    /\ UNCHANGED <<chunk, chunk_coord, faction_id, flow, init_frontier, natural,
                   retried, caller_iid, start_coord, ents, entry_field, op, pc, phase>>

\* field_build_flow and field_fixup, once the frontier has drained
BuildFlow ==
    /\ UNCHANGED <<los_vars, line_vars, rest_vars>>
    /\ pc = "integration"
    /\ pq_size(frontier) = 0
    /\ flow' = [flow EXCEPT !.field =
                   field_fixup(flow.target, integration_field,
                               field_build_flow(integration_field, flow.field), chunk)]
    /\ pc' = "done"
    /\ UNCHANGED <<chunk, chunk_coord, faction_id, integration_field, frontier,
                   init_frontier, natural, retried, caller_iid, start_coord, ents,
                   entry_field, op, phase>>

\* N_FlowFieldUpdateToNearestPathable up to field_build_integration_nonpass
N_FlowFieldUpdateToNearestPathable(start) ==
    /\ UNCHANGED <<los_vars, line_vars, rest_vars>>
    /\ pc = "idle"
    /\ phase = "updated"
    /\ ~field_tile_passable(chunk, start)
    /\ LET seeds == field_passable_frontier(chunk, start, FIELD_RES_R * FIELD_RES_C)
       IN  /\ natural' = seeds
           /\ StartCall("N_FlowFieldUpdateToNearestPathable", seeds)
    /\ retried' = FALSE
    /\ start_coord' = start
    /\ pc' = "integration_nonpass"
    /\ UNCHANGED <<chunk, chunk_coord, faction_id, flow, caller_iid, ents, phase>>

\* One iteration of the while loop of field_build_integration_nonpass
BuildIntegrationNonpass ==
    /\ UNCHANGED <<los_vars, line_vars, rest_vars>>
    /\ pc = "integration_nonpass"
    /\ pq_size(frontier) > 0
    /\ \E e \in pq_coord_top(frontier) :
          LET st == field_build_integration_nonpass(
                        [intf |-> integration_field, q |-> pq_coord_remove(frontier, e)],
                        chunk, faction_id, e.elem)
          IN  /\ integration_field' = st.intf
              /\ frontier' = st.q
    /\ UNCHANGED <<chunk, chunk_coord, faction_id, flow, init_frontier, natural,
                   retried, caller_iid, start_coord, ents, entry_field, op, pc, phase>>

\* the flow loop writing only next to the perimeter
nearest_pathable_flow_first_ring(intf, field) ==
    [t \in Tiles |->
        IF intf[t] = INFINITY THEN field[t]
        ELSE IF intf[t] = 0 THEN field[t]
        ELSE IF intf[t] > COST_IMPASSABLE THEN field[t]
        ELSE field_flow_dir(intf, t)]

\* the flow loop of N_FlowFieldUpdateToNearestPathable
nearest_pathable_flow(intf, field) ==
    [t \in Tiles |->
        IF intf[t] = INFINITY THEN field[t]
        ELSE IF intf[t] = 0 THEN field[t]
        ELSE field_flow_dir(intf, t)]

BuildFlowNonpass ==
    /\ UNCHANGED <<los_vars, line_vars, rest_vars>>
    /\ pc = "integration_nonpass"
    /\ pq_size(frontier) = 0
    /\ flow' = [flow EXCEPT !.field = nearest_pathable_flow(integration_field, flow.field)]
    /\ pc' = "done"
    /\ UNCHANGED <<chunk, chunk_coord, faction_id, integration_field, frontier,
                   init_frontier, natural, retried, caller_iid, start_coord, ents,
                   entry_field, op, phase>>

\* The public function returns: its locals die, the flow field stays
Return ==
    /\ UNCHANGED <<los_vars, line_vars, rest_vars>>
    /\ pc = "done"
    /\ pc' = "idle"
    /\ op' = "none"
    /\ phase' = IF phase = "fresh" THEN "updated" ELSE "final"
    /\ integration_field' = InfinityField
    /\ frontier' = EmptyBag
    /\ init_frontier' = << >>
    /\ natural' = << >>
    /\ retried' = FALSE
    /\ caller_iid' = ISLAND_NONE
    /\ start_coord' = NoStart
    /\ entry_field' = flow.field
    /\ UNCHANGED <<chunk, chunk_coord, faction_id, flow, ents>>

LocalIslandIds == {chunk.local_islands[t] : t \in Tiles} \ {ISLAND_NONE}

Next ==
    \/ N_FlowFieldInit
    \/ \E target \in Targets(chunk) : N_FlowFieldUpdate(target, ents)
    \/ \E population \in EntityPopulations :
          Len(chunk.portals) = 0 /\ N_FlowFieldUpdate(EnemiesTarget(0), population)
    \/ \E local_iid \in LocalIslandIds : N_FlowFieldUpdateIslandToNearest(local_iid)
    \/ \E start \in Tiles : N_FlowFieldUpdateToNearestPathable(start)
    \/ BuildIntegration
    \/ BuildFlow
    \/ BuildIntegrationNonpass
    \/ BuildFlowNonpass
    \/ Return

Spec == Init /\ [][Next]_vars

(***************************************************************************)
(* Line of sight: static helpers                                           *)
(***************************************************************************)
LosInBounds(r, c) == r >= 0 /\ r < LOS_RES_R /\ c >= 0 /\ c < LOS_RES_C

\* The r, c loops of field_neighbours_grid_los from delta i on: the cardinal
\* neighbours inside the field that are not wavefront_blocked, in the order
\* N, W, E, S, a neighbour that is not passable costing COST_IMPASSABLE
RECURSIVE los_neighbours_from(_, _, _, _, _)
los_neighbours_from(ch, los, fid, coord, i) ==
    IF i > Len(CardinalDeltas) THEN << >>
    ELSE LET abs_r == coord[1] + CardinalDeltas[i][1]
             abs_c == coord[2] + CardinalDeltas[i][2]
             n     == <<abs_r, abs_c>>
             rest  == los_neighbours_from(ch, los, fid, coord, i + 1)
         IN  IF ~LosInBounds(abs_r, abs_c) THEN rest
             ELSE IF los[n].wavefront_blocked THEN rest
             ELSE << [coord |-> n,
                      cost  |-> IF tile_passable_for(ch, fid, n)
                                THEN ch.cost_base[n] ELSE COST_IMPASSABLE] >> \o rest

field_neighbours_grid_los(ch, los, fid, coord) ==
    los_neighbours_from(ch, los, fid, coord, 1)

\* cost_field[..] == COST_IMPASSABLE || blockers_field[..] > 0
los_blocked(cost_field, blockers_field, t) ==
    cost_field[t] = COST_IMPASSABLE \/ blockers_field[t] > 0

field_is_los_corner(cell, cost_field, blockers_field) ==
    \/ /\ cell[1] > 0 /\ cell[1] < LOS_RES_R - 1
       /\ los_blocked(cost_field, blockers_field, <<cell[1] - 1, cell[2]>>)
            # los_blocked(cost_field, blockers_field, <<cell[1] + 1, cell[2]>>)
    \/ /\ cell[2] > 0 /\ cell[2] < LOS_RES_C - 1
       /\ los_blocked(cost_field, blockers_field, <<cell[1], cell[2] - 1>>)
            # los_blocked(cost_field, blockers_field, <<cell[1], cell[2] + 1>>)

(***************************************************************************)
(* Line of sight: the shadow line                                          *)
(***************************************************************************)
\* int arithmetic: a sum that leaves the 32 bits wraps around
add32(a, b) ==
    IF a > 0 /\ b > 0 /\ a > INT_MAX - b THEN (a + INT_MIN) + (b + INT_MIN)
    ELSE IF a < 0 /\ b < 0 /\ a < INT_MIN - b THEN (a - INT_MIN) + (b - INT_MIN)
    ELSE a + b

neg32(x) == IF x = INT_MIN THEN INT_MIN ELSE -x

abs32(x) == IF x < 0 THEN neg32(x) ELSE x

\* Centre of a tile in the XZ plane, in tile widths (M_Tile_Bounds): X falls
\* as the column grows, Z grows with the row.
TileCenter(desc) ==
    [x |-> -(desc.chunk[2] * LOS_RES_C + desc.tile[2]),
     z |-> desc.chunk[1] * LOS_RES_R + desc.tile[1]]

\* the largest k of lo .. hi with k / 1000 <= a / sqrt(n2)
RECURSIVE quantise_between(_, _, _, _)
quantise_between(lo, hi, a, n2) ==
    IF lo = hi THEN lo
    ELSE LET mid == (lo + hi + 1) \div 2
         IN  IF mid * mid * n2 <= 1000000 * a * a
             THEN quantise_between(mid, hi, a, n2)
             ELSE quantise_between(lo, mid - 1, a, n2)

\* (int)(1000 * a / sqrt(n2)) for 0 <= a, a * a <= n2 and n2 > 0
Quantised(a, n2) == quantise_between(0, 1000, a, n2)

\* dx, dy, sx, sy of field_create_wavefront_blocked_line. The slope is the
\* normalised vector from the corner to the target; when the two coincide it
\* is 0/0, its conversion to int yields nan, and no comparison with it holds.
line_deltas(target, corner, nan) ==
    LET sl_x == TileCenter(target).x - TileCenter(corner).x
        sl_z == TileCenter(target).z - TileCenter(corner).z
        n2   == sl_x * sl_x + sl_z * sl_z
    IN  IF n2 = 0
        THEN [dx |-> abs32(nan), dy |-> neg32(abs32(nan)), sx |-> -1, sy |-> -1]
        ELSE [dx |-> Quantised(abs(sl_x), n2),
              dy |-> -Quantised(abs(sl_z), n2),
              sx |-> IF sl_x > 0 THEN 1 ELSE -1,
              sy |-> IF sl_z < 0 THEN 1 ELSE -1]

\* the walk before its first iteration
line_start(d, coord) ==
    [dx |-> d.dx, dy |-> d.dy, sx |-> d.sx, sy |-> d.sy,
     err |-> add32(d.dx, d.dy), curr |-> coord]

\* bresenham_step with strict comparisons
bresenham_step_strict(l) ==
    LET e2   == add32(l.err, l.err)
        col  == e2 > l.dy
        err1 == IF col THEN add32(l.err, l.dy) ELSE l.err
        row  == e2 < l.dx
    IN  [l EXCEPT !.err  = IF row THEN add32(err1, l.dx) ELSE err1,
                  !.curr = <<l.curr[1] + (IF row THEN l.sy ELSE 0),
                             l.curr[2] + (IF col THEN l.sx ELSE 0)>>]

\* The body of the do-while loop after the write: the cursor moves
bresenham_step(l) ==
    LET e2   == add32(l.err, l.err)
        col  == e2 >= l.dy
        err1 == IF col THEN add32(l.err, l.dy) ELSE l.err
        row  == e2 <= l.dx
    IN  [l EXCEPT !.err  = IF row THEN add32(err1, l.dx) ELSE err1,
                  !.curr = <<l.curr[1] + (IF row THEN l.sy ELSE 0),
                             l.curr[2] + (IF col THEN l.sx ELSE 0)>>]

\* The tiles the do-while loop writes, from the state l on
RECURSIVE line_tiles(_)
line_tiles(l) ==
    LET next == bresenham_step(l)
    IN  {l.curr} \cup (IF LosInBounds(next.curr[1], next.curr[2])
                       THEN line_tiles(next) ELSE {})

\* the tiles of the shadow line from the tile coord of the chunk at chunk_c
shadow_line(target, chunk_c, coord, nan) ==
    line_tiles(line_start(line_deltas(target, [chunk |-> chunk_c, tile |-> coord], nan),
                          coord))

\* The do-while loop from the state l on: the tile under the cursor is
\* written, the cursor moves, and the loop ends when it leaves the field
RECURSIVE line_write(_, _)
line_write(l, los) ==
    LET next   == bresenham_step(l)
        marked == [los EXCEPT ![l.curr].wavefront_blocked = TRUE]
    IN  IF LosInBounds(next.curr[1], next.curr[2]) THEN line_write(next, marked)
        ELSE marked

\* out_los->field after field_create_wavefront_blocked_line
field_create_wavefront_blocked_line(target, chunk_c, coord, nan, los) ==
    line_write(line_start(line_deltas(target, [chunk |-> chunk_c, tile |-> coord], nan),
                          coord), los)

\* field_pad_wavefront clearing the blocked tile and its cardinal neighbours
field_pad_wavefront_cardinal(los) ==
    [t \in LosTiles |->
        IF \E b \in LosTiles : /\ los[b].wavefront_blocked
                               /\ abs(b[1] - t[1]) + abs(b[2] - t[2]) <= 1
        THEN [los[t] EXCEPT !.visible = FALSE] ELSE los[t]]

field_pad_wavefront(los) ==
    [t \in LosTiles |->
        IF \E b \in LosTiles : /\ los[b].wavefront_blocked
                               /\ abs(b[1] - t[1]) <= 1 /\ abs(b[2] - t[2]) <= 1
        THEN [los[t] EXCEPT !.visible = FALSE] ELSE los[t]]

(***************************************************************************)
(* Line of sight: N_LOSFieldCreate                                         *)
(***************************************************************************)
\* The locals of N_LOSFieldCreate: the field, the integration field, the
\* frontier and the tiles the shadow-line walks have visited so far
LosState(los, intf, q, wk) ==
    [los |-> los, intf |-> intf, frontier |-> q, walked |-> wk]

\* field_create_wavefront_blocked_line applied to the locals
draw_line(st, target, coord, nan) ==
    [st EXCEPT !.los    = field_create_wavefront_blocked_line(target, chunk_coord, coord,
                                                              nan, st.los),
               !.walked = st.walked \cup shadow_line(target, chunk_coord, coord, nan)]

\* The loops over the shared edge, from index i on: the cell of the
\* predecessor's edge is copied, a shadow line is drawn from a copied
\* wavefront_blocked cell and a visible cell seeds the frontier
RECURSIVE los_copy_edge(_, _, _, _, _, _, _, _)
los_copy_edge(st, target, prev, horizontal, curr_edge_idx, prev_edge_idx, nan, i) ==
    IF i >= (IF horizontal THEN LOS_RES_R ELSE LOS_RES_C) THEN st
    ELSE LET cell   == IF horizontal THEN <<i, curr_edge_idx>> ELSE <<curr_edge_idx, i>>
             from   == IF horizontal THEN <<i, prev_edge_idx>> ELSE <<prev_edge_idx, i>>
             copied == [st EXCEPT !.los[cell] = prev.field[from]]
             lined  == IF copied.los[cell].wavefront_blocked
                       THEN draw_line(copied, target, cell, nan) ELSE copied
             seeded == IF lined.los[cell].visible
                       THEN [lined EXCEPT !.frontier = pq_coord_push(@, 0, cell),
                                          !.intf[cell] = 0]
                       ELSE lined
         IN  los_copy_edge(seeded, target, prev, horizontal, curr_edge_idx,
                           prev_edge_idx, nan, i + 1)

\* The body of the for loop over the neighbours of the popped coord
los_visit_neighbour(st, ch, target, nan, curr, nb) ==
    IF nb.cost > 1
    THEN IF ~field_is_los_corner(nb.coord, ch.cost_base, ch.blockers) THEN st
         ELSE draw_line(st, target, nb.coord, nan)
    ELSE LET new_cost == st.intf[curr] + 1
             seen     == [st EXCEPT !.los[nb.coord].visible = TRUE]
         IN  IF new_cost < st.intf[nb.coord]
             THEN [seen EXCEPT !.intf[nb.coord] = new_cost,
                               !.frontier = IF pq_coord_contains(@, nb.coord) THEN @
                                            ELSE pq_coord_push(@, new_cost, nb.coord)]
             ELSE seen

RECURSIVE los_visit_all(_, _, _, _, _, _, _)
los_visit_all(st, ch, target, nan, curr, nbs, i) ==
    IF i > Len(nbs) THEN st
    ELSE los_visit_all(los_visit_neighbour(st, ch, target, nan, curr, nbs[i]),
                       ch, target, nan, curr, nbs, i + 1)

\* The function up to its while loop: the memset, then the seed of the
\* destination chunk or the copy of the edge shared with the predecessor
N_LOSFieldCreate(target, prev) ==
    /\ los_pc = "idle"
    /\ los_target' = target
    /\ prev_los' = prev
    /\ LET fresh == LosState(LosZeroField, LosInfinityField, EmptyBag, {})
           st ==
             IF chunk_coord = target.chunk
             THEN [fresh EXCEPT !.frontier = pq_coord_push(@, 0, target.tile),
                                !.intf[target.tile] = 0]
             ELSE IF prev = NoPrevLos THEN fresh
             ELSE IF prev.chunk[1] < chunk_coord[1]
             THEN los_copy_edge(fresh, target, prev, FALSE, 0, LOS_RES_R - 1, 0, 0)
             ELSE IF prev.chunk[1] > chunk_coord[1]
             THEN los_copy_edge(fresh, target, prev, FALSE, LOS_RES_R - 1, 0, 0, 0)
             ELSE IF prev.chunk[2] < chunk_coord[2]
             THEN los_copy_edge(fresh, target, prev, TRUE, 0, LOS_RES_C - 1, 0, 0)
             ELSE IF prev.chunk[2] > chunk_coord[2]
             THEN los_copy_edge(fresh, target, prev, TRUE, LOS_RES_C - 1, 0, 0, 0)
             ELSE fresh
           asserted ==
             IF chunk_coord = target.chunk THEN prev # NoPrevLos
             ELSE prev = NoPrevLos \/ prev.chunk = chunk_coord
       IN  /\ out_los' = st.los
           /\ los_integration' = st.intf
           /\ los_frontier' = st.frontier
           /\ walked' = st.walked
           /\ los_pc' = IF asserted THEN "assert" ELSE "expand"
    /\ UNCHANGED <<chunk, chunk_coord, faction_id, flow_vars, line_vars,
                   rest_vars>>

\* What the conversion of a NaN float to int yields: 0 or INT_MIN, by the
\* instruction set of the build
NanInts == {0, INT_MIN}

\* One iteration of the while loop: a coord of least priority is popped, its
\* neighbours are listed once and visited in turn
LosExpand ==
    /\ los_pc = "expand"
    /\ pq_size(los_frontier) > 0
    /\ \E e \in pq_coord_top(los_frontier), nan_int \in NanInts :
          LET st  == LosState(out_los, los_integration,
                              pq_coord_remove(los_frontier, e), walked)
              nbs == field_neighbours_grid_los(chunk, out_los, faction_id, e.elem)
              res == los_visit_all(st, chunk, los_target, nan_int, e.elem, nbs, 1)
          IN  /\ out_los' = res.los
              /\ los_integration' = res.intf
              /\ los_frontier' = res.frontier
              /\ walked' = res.walked
    /\ UNCHANGED <<chunk, chunk_coord, faction_id, los_target, prev_los, los_pc,
                   flow_vars, line_vars,
                   rest_vars>>

\* The frontier is empty: the wavefront is padded and the function returns
LosPad ==
    /\ los_pc = "expand"
    /\ pq_size(los_frontier) = 0
    /\ out_los' = field_pad_wavefront(out_los)
    /\ los_pc' = "done"
    /\ UNCHANGED <<chunk, chunk_coord, faction_id, los_target, prev_los, los_integration,
                   los_frontier, walked, flow_vars, line_vars,
                   rest_vars>>

\* The LOS field of a predecessor chunk: shadow holds wavefront_blocked and
\* every tile outside its padding is visible
PrevLosField(coord, shadow) ==
    [chunk |-> coord,
     field |-> field_pad_wavefront(
                  [t \in LosTiles |-> [visible |-> TRUE,
                                       wavefront_blocked |-> t \in shadow]])]

\* the predecessor chunks: the four neighbours, a diagonal neighbour, the
\* chunk itself and a chunk two rows away
PrevChunks ==
    {<<0, 1>>, <<2, 1>>, <<1, 0>>, <<1, 2>>, <<0, 0>>, <<1, 1>>, <<3, 1>>}

PrevShadows ==
    {{}, {<<1, 0>>, <<1, LOS_RES_C - 1>>}, {<<0, 2>>, <<LOS_RES_R - 1, 2>>}}

PrevLosFields == {PrevLosField(c, sh) : c \in PrevChunks, sh \in PrevShadows}

LosInit ==
    /\ \/ chunk \in LosChunks /\ faction_id = FACTION_ID_NONE
       \/ chunk = MakeLosChunk({}, {}, LosPair) /\ faction_id = 0
    /\ chunk_coord = ThisChunk
    /\ FlowIdle
    /\ LosIdle
    /\ LineIdle
    /\ RestIdle

LosNext ==
    \/ \E target \in LosDestTargets : N_LOSFieldCreate(target, NoPrevLos)
    \/ \E target \in LosFarTargets, prev \in PrevLosFields : N_LOSFieldCreate(target, prev)
    \/ LosExpand
    \/ LosPad

LosSpec == LosInit /\ [][LosNext]_vars

(***************************************************************************)
(* Line of sight on a chunk of OpenRes x OpenRes tiles                     *)
(***************************************************************************)
OpenLosInBounds(r, c) == r >= 0 /\ r < OpenRes /\ c >= 0 /\ c < OpenRes

\* the r, c loops of field_neighbours_grid_los from delta i on
RECURSIVE open_los_neighbours_from(_, _, _, _, _)
open_los_neighbours_from(ch, los, fid, coord, i) ==
    IF i > Len(CardinalDeltas) THEN << >>
    ELSE LET abs_r == coord[1] + CardinalDeltas[i][1]
             abs_c == coord[2] + CardinalDeltas[i][2]
             n     == <<abs_r, abs_c>>
             rest  == open_los_neighbours_from(ch, los, fid, coord, i + 1)
         IN  IF ~OpenLosInBounds(abs_r, abs_c) THEN rest
             ELSE IF los[n].wavefront_blocked THEN rest
             ELSE << [coord |-> n,
                      cost  |-> IF tile_passable_for(ch, fid, n)
                                THEN ch.cost_base[n] ELSE COST_IMPASSABLE] >> \o rest

\* field_is_los_corner for a field of OpenRes x OpenRes tiles
field_is_los_corner_open(cell, cost_field, blockers_field) ==
    \/ /\ cell[1] > 0 /\ cell[1] < OpenRes - 1
       /\ los_blocked(cost_field, blockers_field, <<cell[1] - 1, cell[2]>>)
            # los_blocked(cost_field, blockers_field, <<cell[1] + 1, cell[2]>>)
    \/ /\ cell[2] > 0 /\ cell[2] < OpenRes - 1
       /\ los_blocked(cost_field, blockers_field, <<cell[1], cell[2] - 1>>)
            # los_blocked(cost_field, blockers_field, <<cell[1], cell[2] + 1>>)

\* the do-while loop of field_create_wavefront_blocked_line from the state l on
RECURSIVE open_line_write(_, _)
open_line_write(l, los) ==
    LET next   == bresenham_step(l)
        marked == [los EXCEPT ![l.curr].wavefront_blocked = TRUE]
    IN  IF OpenLosInBounds(next.curr[1], next.curr[2]) THEN open_line_write(next, marked)
        ELSE marked

\* field_create_wavefront_blocked_line applied to the locals; target and
\* corner lie in the chunk at chunk_c
open_draw_line(st, target, chunk_c, coord, nan) ==
    [st EXCEPT !.los = open_line_write(
                           line_start(line_deltas(target,
                                                  [chunk |-> chunk_c, tile |-> coord],
                                                  nan),
                                      coord),
                           st.los)]

\* field_pad_wavefront for a field of OpenRes x OpenRes tiles
field_pad_wavefront_open(los) ==
    [t \in OpenTiles |->
        IF \E b \in OpenTiles : /\ los[b].wavefront_blocked
                                /\ abs(b[1] - t[1]) <= 1 /\ abs(b[2] - t[2]) <= 1
        THEN [los[t] EXCEPT !.visible = FALSE] ELSE los[t]]

\* the body of the for loop over the neighbours of the popped coord
open_los_visit_neighbour(st, ch, target, chunk_c, nan, curr, nb) ==
    IF nb.cost > 1
    THEN IF ~field_is_los_corner_open(nb.coord, ch.cost_base, ch.blockers) THEN st
         ELSE open_draw_line(st, target, chunk_c, nb.coord, nan)
    ELSE LET new_cost == st.intf[curr] + 1
             seen     == [st EXCEPT !.los[nb.coord].visible = TRUE]
         IN  IF new_cost < st.intf[nb.coord]
             THEN [seen EXCEPT !.intf[nb.coord] = new_cost,
                               !.frontier = IF pq_coord_contains(@, nb.coord) THEN @
                                            ELSE pq_coord_push(@, new_cost, nb.coord)]
             ELSE seen

RECURSIVE open_los_visit_all(_, _, _, _, _, _, _, _)
open_los_visit_all(st, ch, target, chunk_c, nan, curr, nbs, i) ==
    IF i > Len(nbs) THEN st
    ELSE open_los_visit_all(
             open_los_visit_neighbour(st, ch, target, chunk_c, nan, curr, nbs[i]),
             ch, target, chunk_c, nan, curr, nbs, i + 1)

OpenLosZeroField ==
    [t \in OpenTiles |-> [visible |-> FALSE, wavefront_blocked |-> FALSE]]

\* a single impassable tile at (4,4); the same with (4,5) impassable as well
SingleBlockerChunk == OpenChunkWith({<<4, 4>>})

PairBlockerChunk == OpenChunkWith({<<4, 4>>, <<4, 5>>})

OpenLosTargets == {[chunk |-> ThisChunk, tile |-> t] : t \in {<<7, 7>>, <<7, 0>>}}

\* N_LOSFieldCreate for the destination chunk, up to its while loop
OpenLosCreate(target) ==
    /\ los_pc = "idle"
    /\ chunk_coord = target.chunk
    /\ los_target' = target
    /\ out_los' = OpenLosZeroField
    /\ los_integration' = [[t \in OpenTiles |-> INFINITY] EXCEPT ![target.tile] = 0]
    /\ los_frontier' = pq_coord_push(EmptyBag, 0, target.tile)
    /\ los_pc' = "expand"
    /\ UNCHANGED <<chunk, chunk_coord, faction_id, prev_los, walked, flow_vars,
                   line_vars, rest_vars>>

\* one iteration of the while loop of N_LOSFieldCreate
OpenLosExpand ==
    /\ los_pc = "expand"
    /\ pq_size(los_frontier) > 0
    /\ \E e \in pq_coord_top(los_frontier), nan_int \in NanInts :
          LET st  == LosState(out_los, los_integration,
                              pq_coord_remove(los_frontier, e), walked)
              nbs == open_los_neighbours_from(chunk, out_los, faction_id, e.elem, 1)
              res == open_los_visit_all(st, chunk, los_target, chunk_coord, nan_int,
                                        e.elem, nbs, 1)
          IN  /\ out_los' = res.los
              /\ los_integration' = res.intf
              /\ los_frontier' = res.frontier
    /\ UNCHANGED <<chunk, chunk_coord, faction_id, los_target, prev_los, walked, los_pc,
                   flow_vars, line_vars, rest_vars>>

\* the frontier is empty: the wavefront is padded and the function returns
OpenLosPad ==
    /\ los_pc = "expand"
    /\ pq_size(los_frontier) = 0
    /\ out_los' = field_pad_wavefront_open(out_los)
    /\ los_pc' = "done"
    /\ UNCHANGED <<chunk, chunk_coord, faction_id, los_target, prev_los, los_integration,
                   los_frontier, walked, flow_vars, line_vars, rest_vars>>

OpenLosInit ==
    /\ chunk \in {SingleBlockerChunk, PairBlockerChunk}
    /\ faction_id = FACTION_ID_NONE
    /\ chunk_coord = ThisChunk
    /\ FlowIdle
    /\ LosIdle
    /\ LineIdle
    /\ RestIdle

OpenLosNext ==
    \/ \E target \in OpenLosTargets : OpenLosCreate(target)
    \/ OpenLosExpand
    \/ OpenLosPad

OpenLosSpec == OpenLosInit /\ [][OpenLosNext]_vars

(***************************************************************************)
(* The Bresenham walk on its own, for every corner and quantised slope     *)
(***************************************************************************)
\* the quantised slopes 0 .. 1000 in SlopeParts equal parts
SlopeSteps == {(1000 * k) \div SlopeParts : k \in 0 .. SlopeParts}

\* the iterations after which the model stops following a walk
WalkCap == LOS_RES_R + LOS_RES_C + 2

\* The walk is set up: the deltas, the error accumulator and the cursor
LineBegin(corner, dx, dy, sx, sy) ==
    /\ line_pc = "idle"
    /\ line' = line_start([dx |-> dx, dy |-> dy, sx |-> sx, sy |-> sy], corner)
    /\ line_prev' = corner
    /\ line_iters' = 0
    /\ line_pc' = "walk"
    /\ UNCHANGED <<chunk, chunk_coord, faction_id, flow_vars, los_vars,
                   rest_vars>>

\* One iteration of the do-while loop: the tile under the cursor is written
\* (line_prev), the cursor moves and the loop condition is tested
LineStep ==
    /\ line_pc = "walk"
    /\ line_iters < WalkCap
    /\ line_prev' = line.curr
    /\ line' = bresenham_step(line)
    /\ line_iters' = line_iters + 1
    /\ line_pc' = IF LosInBounds(line'.curr[1], line'.curr[2]) THEN "walk" ELSE "done"
    /\ UNCHANGED <<chunk, chunk_coord, faction_id, flow_vars, los_vars,
                   rest_vars>>

LineInit ==
    /\ chunk = MakeLosChunk({}, {}, {})
    /\ faction_id = FACTION_ID_NONE
    /\ chunk_coord = ThisChunk
    /\ FlowIdle
    /\ LosIdle
    /\ LineIdle
    /\ RestIdle

LineNext ==
    \/ \E corner \in LosTiles, dx \in SlopeSteps, ndy \in SlopeSteps, sx, sy \in {-1, 1} :
          LineBegin(corner, dx, -ndy, sx, sy)
    \/ LineStep

LineSpec == LineInit /\ [][LineNext]_vars

(***************************************************************************)
(* region.c: static functions                                              *)
(***************************************************************************)
\* struct region; of radius and xlen the one the type does not use is 0,
\* and xlen is even
Circle(pos, radius) ==
    [type |-> "REGION_CIRCLE", radius |-> radius, xlen |-> 0, pos |-> pos,
     curr_ents |-> << >>, prev_ents |-> << >>]

Rectangle(pos, xlen) ==
    [type |-> "REGION_RECTANGLE", radius |-> 0, xlen |-> xlen, pos |-> pos,
     curr_ents |-> << >>, prev_ents |-> << >>]

SeqHas(seq, x) == \E i \in 1 .. Len(seq) : seq[i] = x

\* vec_del of the first element the comparison finds
SeqDel(seq, x) ==
    LET idx == CHOOSE i \in 1 .. Len(seq) : seq[i] = x /\ \A j \in 1 .. i - 1 : seq[j] # x
    IN  [k \in 1 .. Len(seq) - 1 |-> IF k < idx THEN seq[k] ELSE seq[k + 1]]

region_intersects_chunk(reg, c) ==
    IF reg.type = "REGION_CIRCLE"
    THEN \E x \in ChunkPositions(c) : abs(x - reg.pos) <= reg.radius
    ELSE \E x \in ChunkPositions(c) :
            reg.pos - reg.xlen \div 2 <= x /\ x <= reg.pos + reg.xlen \div 2

\* The dc loop of region_update_intersecting from dc on, around the chunk td
RECURSIVE intersecting_from(_, _, _, _, _, _, _)
intersecting_from(name, reg, add, inter, td, delta, dc) ==
    IF dc > delta THEN inter
    ELSE LET c    == td + dc
             next == IF c < 0 \/ c >= MapChunks THEN inter
                     ELSE IF ~region_intersects_chunk(reg, c) THEN inter
                     ELSE IF add THEN [inter EXCEPT ![c] = Append(@, name)]
                     ELSE IF SeqHas(inter[c], name)
                     THEN [inter EXCEPT ![c] = SeqDel(@, name)]
                     ELSE inter
         IN  intersecting_from(name, reg, add, next, td, delta, dc + 1)

\* A variant whose REMOVE looks at the chunk of the region's centre only
region_update_intersecting_centre(name, reg, add, inter) ==
    LET delta == IF ~add THEN 0
                 ELSE IF reg.type = "REGION_CIRCLE" THEN CeilDiv(reg.radius, ChunkLen)
                 ELSE CeilDiv(reg.xlen, 2 * ChunkLen)
        td    == ChunkOfPoint(reg.pos)
    IN  IF td = -1 THEN inter
        ELSE intersecting_from(name, reg, add, inter, td, delta, -delta)

\* s_intersecting after region_update_intersecting with op ADD (add) or REMOVE
region_update_intersecting(name, reg, add, inter) ==
    LET delta == IF reg.type = "REGION_CIRCLE" THEN CeilDiv(reg.radius, ChunkLen)
                 ELSE CeilDiv(reg.xlen, 2 * ChunkLen)
        td    == ChunkOfPoint(reg.pos)
    IN  IF td = -1 THEN inter
        ELSE intersecting_from(name, reg, add, inter, td, delta, -delta)

region_contains(reg, point) ==
    IF reg.type = "REGION_CIRCLE" THEN abs(point - reg.pos) <= reg.radius
    ELSE reg.pos - reg.xlen \div 2 <= point /\ point <= reg.pos + reg.xlen \div 2

\* the names regions_at_point puts out, in the order of the chunk's list
regions_at_point(point, regions, inter) ==
    LET td == ChunkOfPoint(point)
    IN  IF td = -1 THEN << >>
        ELSE SelectSeq(inter[td], LAMBDA n : region_contains(regions[n], point))

\* regions_remove_ent from the i-th region at the point on: st is
\* [regions, dirty]
RECURSIVE remove_ent_from(_, _, _, _)
remove_ent_from(st, uid, names, i) ==
    IF i > Len(names) THEN st
    ELSE LET n == names[i]
         IN  remove_ent_from(
                 IF ~SeqHas(st.regions[n].curr_ents, uid) THEN st
                 ELSE [regions |-> [st.regions EXCEPT ![n].curr_ents = SeqDel(@, uid)],
                       dirty   |-> st.dirty \cup {n}],
                 uid, names, i + 1)

regions_remove_ent(st, uid, pos, inter) ==
    remove_ent_from(st, uid, regions_at_point(pos, st.regions, inter), 1)

RECURSIVE add_ent_from(_, _, _, _)
add_ent_from(st, uid, names, i) ==
    IF i > Len(names) THEN st
    ELSE LET n == names[i]
         IN  add_ent_from(
                 IF SeqHas(st.regions[n].curr_ents, uid) THEN st
                 ELSE [regions |-> [st.regions EXCEPT ![n].curr_ents = Append(@, uid)],
                       dirty   |-> st.dirty \cup {n}],
                 uid, names, i + 1)

regions_add_ent(st, uid, pos, inter) ==
    IF ZombieOrMarker(uid) THEN st
    ELSE add_ent_from(st, uid, regions_at_point(pos, st.regions, inter), 1)

\* *reg after region_update_ents: the entities of the position index inside
\* the shape, zombies and markers left out
region_update_ents(reg, where) ==
    LET found == IF reg.type = "REGION_CIRCLE"
                 THEN G_Pos_EntsInCircle(reg.pos, reg.radius, where)
                 ELSE G_Pos_EntsInRect(reg.pos - reg.xlen \div 2,
                                       reg.pos + reg.xlen \div 2, where)
    IN  [reg EXCEPT !.curr_ents = SelectSeq(found, LAMBDA u : ~ZombieOrMarker(u))]

compare_uint32s(a, b) == sub32(a, b)

SeqPermutations(seq) ==
    {q \in [1 .. Len(seq) -> {seq[k] : k \in 1 .. Len(seq)}] :
        \A k \in 1 .. Len(seq) : \E m \in 1 .. Len(seq) : q[m] = seq[k]}

\* The array after qsort with compare_uint32s: the permutation the
\* comparison orders. The members of a region are distinct.
qsort(seq) ==
    CHOOSE q \in SeqPermutations(seq) :
        \A k, m \in 1 .. Len(seq) : k < m => compare_uint32s(q[k], q[m]) <= 0

Event(type, uid, name) == [type |-> type, uid |-> uid, arg |-> name]

\* The three while loops of region_notify_changed from the indices i, j on
\* (counted from 1): the notifications sent, in their order
RECURSIVE notify_from(_, _, _, _, _)
notify_from(name, curr, prev, i, j) ==
    IF i <= Len(curr) /\ j <= Len(prev)
    THEN IF uint32_lt(curr[i], prev[j])
         THEN <<Event("EVENT_ENTERED_REGION", curr[i], name)>>
                  \o notify_from(name, curr, prev, i + 1, j)
         ELSE IF uint32_lt(prev[j], curr[i])
         THEN <<Event("EVENT_EXITED_REGION", prev[j], name)>>
                  \o notify_from(name, curr, prev, i, j + 1)
         ELSE notify_from(name, curr, prev, i + 1, j + 1)
    ELSE IF i <= Len(curr)
    THEN <<Event("EVENT_ENTERED_REGION", curr[i], name)>>
             \o notify_from(name, curr, prev, i + 1, j)
    ELSE IF j <= Len(prev)
    THEN <<Event("EVENT_EXITED_REGION", prev[j], name)>>
             \o notify_from(name, curr, prev, i, j + 1)
    ELSE << >>

\* the notifications region_notify_changed sends for a region
region_notify_changed(name, reg) ==
    notify_from(name, qsort(reg.curr_ents), qsort(reg.prev_ents), 1, 1)

\* *reg after region_notify_changed
region_after_notify(reg) ==
    [reg EXCEPT !.curr_ents = qsort(reg.curr_ents), !.prev_ents = qsort(reg.curr_ents)]

RECURSIVE SeqToBag(_)
SeqToBag(seq) ==
    IF seq = << >> THEN EmptyBag ELSE SetToBag({Head(seq)}) (+) SeqToBag(Tail(seq))

(***************************************************************************)
(* region.c: extern functions                                              *)
(***************************************************************************)
Registered == DOMAIN s_regions

RegionCalled(name, ret) ==
    /\ region_op' = name
    /\ region_ret' = ret
    /\ UNCHANGED region_others

\* region_add and the call of region_update_ents after it, for both shapes.
\* alloc tells whether pf_strdup and kh_put find memory. region_add stores a
\* copy of newreg; region_update_ents then fills the curr_ents of newreg, the
\* caller's local, and marks the name dirty.
\* A variant without the lookup of the name: the region of an existing name
\* is replaced
AddRegion_replacing(op_name, name, newreg, alloc) ==
    /\ IF ~alloc
       THEN /\ UNCHANGED <<s_regions, s_intersecting, s_dirty>>
            /\ RegionCalled(op_name, FALSE)
       ELSE /\ s_regions' = [n \in Registered \cup {name} |->
                                IF n = name THEN newreg ELSE s_regions[n]]
            /\ s_intersecting' =
                   region_update_intersecting(name, newreg, TRUE, s_intersecting)
            /\ s_dirty' = s_dirty \cup {name}
            /\ RegionCalled(op_name, TRUE)
    /\ events' = EmptyBag
    /\ UNCHANGED ent_pos

AddRegion(op_name, name, newreg, alloc) ==
    /\ IF name \in Registered \/ ~alloc
       THEN /\ UNCHANGED <<s_regions, s_intersecting, s_dirty>>
            /\ RegionCalled(op_name, FALSE)
       ELSE LET stored == newreg
                local  == region_update_ents(newreg, ent_pos)
            IN  /\ s_regions' = [n \in Registered \cup {name} |->
                                    IF n = name THEN stored ELSE s_regions[n]]
                /\ s_intersecting' =
                       region_update_intersecting(name, newreg, TRUE, s_intersecting)
                /\ s_dirty' = s_dirty \cup {name}
                /\ RegionCalled(op_name, TRUE)
    /\ events' = EmptyBag
    /\ UNCHANGED ent_pos

G_Region_AddCircle(name, pos, radius, alloc) ==
    AddRegion("G_Region_AddCircle", name, Circle(pos, radius), alloc)

G_Region_AddRectangle(name, pos, xlen, alloc) ==
    AddRegion("G_Region_AddRectangle", name, Rectangle(pos, xlen), alloc)

\* The notifications of G_Region_Remove: every current member exits
remove_events(name) ==
    IF name \notin Registered THEN EmptyBag
    ELSE LET members == s_regions[name].curr_ents
         IN  SeqToBag([i \in 1 .. Len(members) |->
                          Event("EVENT_EXITED_REGION", members[i], name)])

G_Region_Remove(name) ==
    /\ IF name \notin Registered
       THEN UNCHANGED <<s_regions, s_intersecting, s_dirty>>
       ELSE /\ s_intersecting' =
                   region_update_intersecting(name, s_regions[name], FALSE,
                                              s_intersecting)
            /\ s_regions' = [n \in Registered \ {name} |-> s_regions[n]]
            /\ s_dirty' = s_dirty \ {name}
    /\ RegionCalled("G_Region_Remove", TRUE)
    /\ events' = remove_events(name)
    /\ UNCHANGED ent_pos

\* EPSILON is below the distance of two positions: the early return is
\* taken for the position the region has
G_Region_SetPos(name, pos) ==
    /\ IF name \notin Registered
       THEN /\ UNCHANGED <<s_regions, s_intersecting, s_dirty>>
            /\ RegionCalled("G_Region_SetPos", FALSE)
       ELSE IF s_regions[name].pos = pos
       THEN /\ UNCHANGED <<s_regions, s_intersecting, s_dirty>>
            /\ RegionCalled("G_Region_SetPos", TRUE)
       ELSE LET reg     == s_regions[name]
                removed == region_update_intersecting(name, reg, FALSE, s_intersecting)
                moved   == [reg EXCEPT !.pos = pos]
            IN  /\ s_intersecting' = region_update_intersecting(name, moved, TRUE, removed)
                /\ s_regions' = [s_regions EXCEPT
                                    ![name] = region_update_ents(moved, ent_pos)]
                /\ s_dirty' = s_dirty \cup {name}
                /\ RegionCalled("G_Region_SetPos", TRUE)
    /\ events' = EmptyBag
    /\ UNCHANGED ent_pos

\* what the getters return in the current state
G_Region_GetPos(name) ==
    IF name \notin Registered THEN [ret |-> FALSE, out |-> 0]
    ELSE [ret |-> TRUE, out |-> s_regions[name].pos]

G_Region_GetEnts(name) ==
    IF name \notin Registered THEN << >> ELSE s_regions[name].curr_ents

G_Region_ContainsEnt(name, uid) ==
    IF name \notin Registered THEN FALSE ELSE SeqHas(s_regions[name].curr_ents, uid)

\* An entity moves: the position index takes the entity out of the regions
\* at its old position (G_Region_RemoveRef), stores the new position and
\* enters the entity in the regions there (G_Region_AddRef)
G_Pos_Set(uid, pos) ==
    /\ ent_pos[uid] # pos
    /\ LET removed == regions_remove_ent([regions |-> s_regions, dirty |-> s_dirty],
                                         uid, ent_pos[uid], s_intersecting)
           added   == regions_add_ent(removed, uid, pos, s_intersecting)
       IN  /\ s_regions' = added.regions
           /\ s_dirty' = added.dirty
    /\ ent_pos' = [ent_pos EXCEPT ![uid] = pos]
    /\ RegionCalled("G_Region_AddRef", TRUE)
    /\ events' = EmptyBag
    /\ UNCHANGED s_intersecting

\* The loop of G_Region_Update over the names of S: the notifications sent
RECURSIVE update_events(_)
update_events(S) ==
    IF S = {} THEN EmptyBag
    ELSE LET n == CHOOSE m \in S : TRUE
         IN  SeqToBag(region_notify_changed(n, s_regions[n])) (+) update_events(S \ {n})

\* The tick: every dirty region notifies its changes and takes its current
\* members for the previous ones; the dirty set is cleared
G_Region_Update ==
    /\ IF \E n \in s_dirty : n \notin Registered
       THEN /\ UNCHANGED <<s_regions, s_dirty>>
            /\ events' = EmptyBag
            /\ RegionCalled("G_Region_Update", "assert")
       ELSE /\ events' = update_events(s_dirty)
            /\ s_regions' = [n \in Registered |->
                                IF n \in s_dirty THEN region_after_notify(s_regions[n])
                                ELSE s_regions[n]]
            /\ s_dirty' = {}
            /\ RegionCalled("G_Region_Update", TRUE)
    /\ UNCHANGED <<s_intersecting, ent_pos>>

RegionNames == {"a", "b"}

\* The calls explored: circles of radius 1 and rectangles of length 2, the
\* second name for rectangles at the end of the map only
CircleCalls == {<<"a", 1>>, <<"a", 2>>}
RectangleCalls == {<<"a", 0>>, <<"b", 3>>}
SetPosCalls == {<<"a", 1>>, <<"a", 2>>, <<"b", 3>>}
\* entity 1 moves over the map, the others between two positions
PosCalls == {c \in Uids \X Positions : c[1] # 1 => c[2] \in {0, 1}}

RegionInit ==
    /\ chunk = BlockedChunk
    /\ faction_id = FACTION_ID_NONE
    /\ chunk_coord = ThisChunk
    /\ FlowIdle
    /\ LosIdle
    /\ LineIdle
    /\ RestIdle

RegionNext ==
    \/ \E c \in CircleCalls, alloc \in BOOLEAN :
          G_Region_AddCircle(c[1], c[2], 1, alloc) /\ UNCHANGED <<py_vars, heard>>
    \/ \E c \in RectangleCalls, alloc \in BOOLEAN :
          G_Region_AddRectangle(c[1], c[2], 2, alloc) /\ UNCHANGED <<py_vars, heard>>
    \/ \E name \in RegionNames : G_Region_Remove(name) /\ UNCHANGED <<py_vars, heard>>
    \/ \E c \in SetPosCalls : G_Region_SetPos(c[1], c[2]) /\ UNCHANGED <<py_vars, heard>>
    \/ \E c \in PosCalls : G_Pos_Set(c[1], c[2]) /\ UNCHANGED <<py_vars, heard>>
    \/ G_Region_Update /\ UNCHANGED <<py_vars, heard>>

RegionSpec == RegionInit /\ [][RegionNext]_vars

(***************************************************************************)
(* The flow field towards enemy units that stand on corner tiles           *)
(***************************************************************************)
\* Faction 0 asks for the field towards its enemies, the units of faction 1
\* on some of the corner tiles, or on none.
UnitsInit ==
    /\ chunk \in {UnitsChunk(S) : S \in SUBSET CornerTiles}
    /\ faction_id = 0
    /\ chunk_coord = ThisChunk
    /\ FlowIdle
    /\ LosIdle
    /\ LineIdle
    /\ RestIdle

UnitsNext ==
    \/ N_FlowFieldInit
    \/ N_FlowFieldUpdate(EnemiesTarget(0), UnitsOn(chunk))
    \/ \E local_iid \in LocalIslandIds : N_FlowFieldUpdateIslandToNearest(local_iid)
    \/ BuildIntegration
    \/ BuildFlow
    \/ Return

UnitsSpec == UnitsInit /\ [][UnitsNext]_vars

(***************************************************************************)
(* Jobs: N_FlowFieldUpdate dispatched several times on one chunk           *)
(***************************************************************************)
\* N_FlowFieldUpdate of job j up to the call of field_build_integration
JobUpdate(j, target) ==
    /\ jobs[j].pc = "idle"
    /\ LET seeds == field_initial_frontier(target, chunk, {}, FALSE, faction_id,
                                           FIELD_RES_R * FIELD_RES_C)
           began == [jobs EXCEPT ![j].flow.target = target,
                                 ![j].pc = "integration",
                                 ![j].beside = job_beside(jobs, j)]
       IN  jobs' = job_write_locals(began, j, seed_field(InfinityField, seeds, 1),
                                    pq_push_all(EmptyBag, seeds, 1))
    /\ UNCHANGED job_others

\* one iteration of the while loop of field_build_integration in job j
JobBuildIntegration(j) ==
    /\ jobs[j].pc = "integration"
    /\ pq_size(jobs[j].frontier) > 0
    /\ \E e \in pq_coord_top(jobs[j].frontier) :
          LET st == field_build_integration(
                        [intf |-> jobs[j].integration_field,
                         q    |-> pq_coord_remove(jobs[j].frontier, e)],
                        chunk, faction_id, e.elem)
          IN  jobs' = job_write_locals([jobs EXCEPT ![j].beside = job_beside(jobs, j)],
                                       j, st.intf, st.q)
    /\ UNCHANGED job_others

\* field_build_flow and field_fixup of job j, and its return
JobBuildFlow(j) ==
    /\ jobs[j].pc = "integration"
    /\ pq_size(jobs[j].frontier) = 0
    /\ jobs' = [jobs EXCEPT
                   ![j].flow.field =
                       field_fixup(jobs[j].flow.target, jobs[j].integration_field,
                                   field_build_flow(jobs[j].integration_field,
                                                    jobs[j].flow.field), chunk),
                   ![j].pc = "done",
                   ![j].beside = job_beside(jobs, j)]
    /\ UNCHANGED job_others

JobInit ==
    /\ chunk \in JobChunks
    /\ faction_id = FACTION_ID_NONE
    /\ chunk_coord = ThisChunk
    /\ FlowIdle
    /\ LosIdle
    /\ LineIdle
    /\ RestIdle

JobNext ==
    \/ \E j \in Jobs, target \in JobTargets(chunk) : JobUpdate(j, target)
    \/ \E j \in Jobs : JobBuildIntegration(j)
    \/ \E j \in Jobs : JobBuildFlow(j)

JobSpec == JobInit /\ [][JobNext]_vars

(***************************************************************************)
(* N_FlowFieldUpdate on the open chunk                                     *)
(***************************************************************************)
\* N_FlowFieldUpdate up to the call of field_build_integration
OpenUpdate(target) ==
    /\ open_pc = "idle"
    /\ LET seeds == field_initial_frontier(target, chunk, {}, FALSE,
                                           FACTION_ID_NONE, OpenRes * OpenRes)
       IN  /\ open_frontier' = pq_push_all(EmptyBag, seeds, 1)
           /\ open_integration' = seed_field([t \in OpenTiles |-> INFINITY], seeds, 1)
    /\ open_flow' = [open_flow EXCEPT !.target = target]
    /\ open_pc' = "integration"
    /\ UNCHANGED open_others

\* one iteration of the while loop of field_build_integration
OpenBuildIntegration ==
    /\ open_pc = "integration"
    /\ pq_size(open_frontier) > 0
    /\ \E e \in pq_coord_top(open_frontier) :
          LET st == relax_all([intf |-> open_integration,
                               q    |-> pq_coord_remove(open_frontier, e)],
                              e.elem,
                              field_neighbours_open(chunk, e.elem, TRUE,
                                                    FACTION_ID_NONE),
                              1)
          IN  /\ open_integration' = st.intf
              /\ open_frontier' = st.q
    /\ UNCHANGED <<open_flow, open_pc>>
    /\ UNCHANGED open_others

\* field_build_flow, once the frontier has drained; field_fixup leaves the
\* field of a TILE target as it is
OpenBuildFlow ==
    /\ open_pc = "integration"
    /\ pq_size(open_frontier) = 0
    /\ open_flow' = [open_flow EXCEPT !.field =
                        field_build_flow_open(open_integration, open_flow.field)]
    /\ open_pc' = "done"
    /\ UNCHANGED <<open_integration, open_frontier>>
    /\ UNCHANGED open_others

OpenInit ==
    /\ chunk = OpenChunk
    /\ faction_id = FACTION_ID_NONE
    /\ chunk_coord = ThisChunk
    /\ FlowIdle
    /\ LosIdle
    /\ LineIdle
    /\ RestIdle

OpenNext ==
    \/ \E target \in OpenTargets : OpenUpdate(target)
    \/ OpenBuildIntegration
    \/ OpenBuildFlow

OpenSpec == OpenInit /\ [][OpenNext]_vars

\* N_FlowFieldUpdateToNearestPathable on a chunk of OpenRes x OpenRes tiles, up
\* to field_build_integration_nonpass
OpenNearestPathable(start) ==
    /\ open_pc = "idle"
    /\ ~field_tile_passable(chunk, start)
    /\ LET seeds == field_passable_frontier_open(chunk, start, OpenRes * OpenRes)
       IN  /\ open_frontier' = pq_push_all(EmptyBag, seeds, 1)
           /\ open_integration' = seed_field([t \in OpenTiles |-> INFINITY], seeds, 1)
    /\ start_coord' = start
    /\ open_pc' = "integration_nonpass"
    /\ UNCHANGED <<chunk, chunk_coord, faction_id, flow, integration_field, frontier,
                   init_frontier, natural, retried, caller_iid, ents, entry_field, op,
                   pc, phase, open_flow, los_vars, line_vars, region_vars, id_vars,
                   job_vars, dir_vars, py_vars, heard>>

\* one iteration of the while loop of field_build_integration_nonpass
OpenBuildIntegrationNonpass ==
    /\ open_pc = "integration_nonpass"
    /\ pq_size(open_frontier) > 0
    /\ \E e \in pq_coord_top(open_frontier) :
          LET st == field_build_integration_nonpass_open(
                        [intf |-> open_integration,
                         q    |-> pq_coord_remove(open_frontier, e)],
                        chunk, faction_id, e.elem)
          IN  /\ open_integration' = st.intf
              /\ open_frontier' = st.q
    /\ UNCHANGED <<open_flow, open_pc>>
    /\ UNCHANGED open_others

\* the flow loop, once the frontier has drained
OpenBuildFlowNonpass ==
    /\ open_pc = "integration_nonpass"
    /\ pq_size(open_frontier) = 0
    /\ open_flow' = [open_flow EXCEPT !.field =
                        nearest_pathable_flow_open(open_integration, open_flow.field)]
    /\ open_pc' = "done"
    /\ UNCHANGED <<open_integration, open_frontier>>
    /\ UNCHANGED open_others

BlockInit ==
    /\ chunk = BlockChunk
    /\ faction_id = FACTION_ID_NONE
    /\ chunk_coord = ThisChunk
    /\ FlowIdle
    /\ LosIdle
    /\ LineIdle
    /\ RestIdle

BlockNext ==
    \/ \E start \in BlockStarts : OpenNearestPathable(start)
    \/ OpenBuildIntegrationNonpass
    \/ OpenBuildFlowNonpass

BlockSpec == BlockInit /\ [][BlockNext]_vars

\* the same on the chunk with the wall
WallInit ==
    /\ chunk = WallChunk
    /\ faction_id = FACTION_ID_NONE
    /\ chunk_coord = ThisChunk
    /\ FlowIdle
    /\ LosIdle
    /\ LineIdle
    /\ RestIdle

WallNext ==
    \/ \E target \in WallTargets : OpenUpdate(target)
    \/ OpenBuildIntegration
    \/ OpenBuildFlow

WallSpec == WallInit /\ [][WallNext]_vars

(***************************************************************************)
(* N_FlowField_ID and N_FlowField_Layer as calls                           *)
(***************************************************************************)
\* N_FlowField_ID is called for a first triple and then for a second one
IdCall(slot, chunk_c, target, layer, ndebug) ==
    /\ id_ret[slot] = NotCalled
    /\ slot = 2 => id_ret[1] # NotCalled
    /\ id_args' = [id_args EXCEPT ![slot] =
                      [chunk |-> chunk_c, target |-> target, layer |-> layer]]
    /\ id_ret' = [id_ret EXCEPT ![slot] = N_FlowField_ID(chunk_c, target, layer, ndebug)]
    /\ UNCHANGED id_others

IdInit ==
    /\ chunk = BlockedChunk
    /\ faction_id = FACTION_ID_NONE
    /\ chunk_coord = ThisChunk
    /\ FlowIdle
    /\ LosIdle
    /\ LineIdle
    /\ RestIdle

IdNext ==
    \E slot \in {1, 2}, chunk_c \in IdCoords, target \in IdTargets, layer \in IdLayers,
       ndebug \in BOOLEAN :
        IdCall(slot, chunk_c, target, layer, ndebug)

IdSpec == IdInit /\ [][IdNext]_vars

(***************************************************************************)
(* Properties                                                              *)
(***************************************************************************)
Updating == op \in {"N_FlowFieldUpdate", "N_FlowFieldUpdateIslandToNearest"}

Finite(t) == integration_field[t] < INFINITY

Seeds == SeqRange(init_frontier)

\* what entering tile t adds to the cost of a path
StepCost(t) == IF chunk.blockers[t] > 0 THEN COST_IMPASSABLE ELSE chunk.cost_base[t]

\* one more step allowed on the paths whose least costs are d
LeastCostStep(d) ==
    [t \in Tiles |->
        IF t \in Seeds THEN 0
        ELSE IF ~tile_passable_for(chunk, faction_id, t) THEN INFINITY
        ELSE SetMin({d[t]} \cup {d[n] + StepCost(t) :
                                   n \in {u \in Tiles : Adjacent(u, t)
                                                        /\ d[u] < INFINITY}})]

\* the least cost of a path from a seed to each tile through tiles that are
\* passable for faction_id, given the least costs d over the paths of some
\* number of steps and k more steps to allow
RECURSIVE LeastCost(_, _)
LeastCost(d, k) ==
    LET longer == LeastCostStep(d)
    IN  IF k = 0 \/ longer = d THEN d ELSE LeastCost(longer, k - 1)

\* C1: when field_build_integration has drained the frontier, every tile
\* holds the least sum of step costs over the 4-connected paths from a seed
\* through passable tiles, and INFINITY exactly when no such path exists.
C1_IntegrationIsLeastCost ==
    (pc = "done" /\ Updating) =>
        integration_field =
            LeastCost([t \in Tiles |-> IF t \in Seeds THEN 0 ELSE INFINITY],
                      FIELD_RES_R * FIELD_RES_C)

C1_Witness ==
    /\ pc = "done" /\ op = "N_FlowFieldUpdate"
    /\ \E t \in Tiles : ~Finite(t) /\ field_tile_passable(chunk, t)
    /\ \E t \in Tiles : Finite(t) /\ integration_field[t] > 3

\* the tile a direction points to from t
DirTile(t, dir) ==
    IF dir = FD_N THEN <<t[1] - 1, t[2]>>
    ELSE IF dir = FD_S THEN <<t[1] + 1, t[2]>>
    ELSE IF dir = FD_E THEN <<t[1], t[2] + 1>>
    ELSE IF dir = FD_W THEN <<t[1], t[2] - 1>>
    ELSE IF dir = FD_NW THEN <<t[1] - 1, t[2] - 1>>
    ELSE IF dir = FD_NE THEN <<t[1] - 1, t[2] + 1>>
    ELSE IF dir = FD_SW THEN <<t[1] + 1, t[2] - 1>>
    ELSE IF dir = FD_SE THEN <<t[1] + 1, t[2] + 1>>
    ELSE t

PointsDownhill(t) ==
    LET n == DirTile(t, flow.field[t])
    IN  n \in Tiles /\ integration_field[n] < integration_field[t]

\* C2 as stated: after any of the three updates, every tile with a finite
\* integration value and a direction other than NONE points to a neighbour
\* of strictly smaller integration value.
C2_Original ==
    pc = "done" =>
        \A t \in Tiles : (Finite(t) /\ flow.field[t] # FD_NONE) => PointsDownhill(t)

\* C2 amended: the same for the tiles whose integration value is finite and
\* not zero.
C2_NonSeedPointsDownhill ==
    pc = "done" =>
        \A t \in Tiles :
            (Finite(t) /\ integration_field[t] # 0 /\ flow.field[t] # FD_NONE)
                => PointsDownhill(t)

C2_Witness ==
    /\ pc = "done" /\ op = "N_FlowFieldUpdateToNearestPathable"
    /\ \E t \in Tiles : Finite(t) /\ integration_field[t] # 0
                        /\ flow.field[t] # FD_NONE /\ PointsDownhill(t)
    /\ \E t \in Tiles : integration_field[t] = 0 /\ flow.field[t] # FD_NONE

\* the two cardinal neighbours that share the corner with a diagonal one
DiagonalSides(t, dir) ==
    IF dir = FD_NW THEN {<<t[1] - 1, t[2]>>, <<t[1], t[2] - 1>>}
    ELSE IF dir = FD_NE THEN {<<t[1] - 1, t[2]>>, <<t[1], t[2] + 1>>}
    ELSE IF dir = FD_SW THEN {<<t[1] + 1, t[2]>>, <<t[1], t[2] - 1>>}
    ELSE IF dir = FD_SE THEN {<<t[1] + 1, t[2]>>, <<t[1], t[2] + 1>>}
    ELSE {}

\* C3: field_flow_dir returns a diagonal direction only if both cardinal
\* neighbours sharing that corner have finite integration values.
C3_DiagonalNeedsBothSides ==
    pc = "done" =>
        \A t \in Tiles :
            (Finite(t) /\ integration_field[t] # 0) =>
                \A n \in DiagonalSides(t, field_flow_dir(integration_field, t)) :
                    Finite(n)

\* the cardinal direction from the chunk of a portal to the connected chunk
TowardConnected(port) ==
    IF port.connected[1] < port.chunk[1] THEN FD_N
    ELSE IF port.connected[1] > port.chunk[1] THEN FD_S
    ELSE IF port.connected[2] < port.chunk[2] THEN FD_W
    ELSE FD_E

\* C4: after N_FlowFieldUpdate with a PORTAL target every seed tile of the
\* portal points toward the chunk of the connected portal.
C4_PortalSeedsPointAcross ==
    (pc = "done" /\ op = "N_FlowFieldUpdate" /\ flow.target.type = "TARGET_PORTAL") =>
        \A t \in Seeds :
            flow.field[t] = TowardConnected(chunk.portals[flow.target.port + 1])

C4_Witness ==
    /\ pc = "done" /\ op = "N_FlowFieldUpdate" /\ flow.target.type = "TARGET_PORTAL"
    /\ Cardinality(Seeds) >= 2
    /\ \A t \in Seeds : flow.field[t] = FD_E

\* C5: after N_FlowFieldUpdate with a PORTAL_MASK target every seed tile of
\* selected portal i points toward portal i's own connected chunk.
C5_MaskSeedsPointAcross ==
    (pc = "done" /\ op = "N_FlowFieldUpdate" /\ flow.target.type = "TARGET_PORTALMASK") =>
        \A i \in flow.target.portalmask :
            \A t \in Seeds \cap SeqRange(PortalTiles(chunk.portals[i + 1])) :
                flow.field[t] = TowardConnected(chunk.portals[i + 1])

\* C6: N_FlowFieldUpdate and N_FlowFieldUpdateIslandToNearest leave every tile
\* whose integration value is still INFINITY with the direction the buffer
\* held on entry, which is NONE after N_FlowFieldInit.
C6_UnreachedKeepsEntry ==
    (pc = "done" /\ Updating) =>
        \A t \in Tiles :
            ~Finite(t) => /\ flow.field[t] = entry_field[t]
                          /\ phase = "fresh" => flow.field[t] = FD_NONE

C6_Witness ==
    /\ pc = "done" /\ Updating
    /\ \E t \in Tiles : ~Finite(t) /\ entry_field[t] # FD_NONE
    /\ \E t \in Tiles : Finite(t) /\ flow.field[t] # entry_field[t]

\* C7: after N_FlowFieldUpdate with a TILE or ENEMIES target every tile of
\* integration value 0 has direction NONE.
C7_SeedsHaveNone ==
    (/\ pc = "done" /\ op = "N_FlowFieldUpdate"
     /\ flow.target.type \in {"TARGET_TILE", "TARGET_ENEMIES"}) =>
        \A t \in Tiles : integration_field[t] = 0 => flow.field[t] = FD_NONE

C7_Witness ==
    /\ pc = "done" /\ op = "N_FlowFieldUpdate" /\ flow.target.type = "TARGET_TILE"
    /\ integration_field[flow.target.tile] = 0
    /\ entry_field[flow.target.tile] # FD_NONE
    /\ flow.field[flow.target.tile] = FD_NONE

\* C8: a tile is passable exactly when cost_base is not IMPASSABLE and either
\* blockers = 0 or faction_id is not NONE and the tile is occupied by enemy
\* factions of faction_id and by no other faction.
C8_PassableIffEnemiesOnly ==
    \A t \in Tiles : \A fid \in {FACTION_ID_NONE} \cup Factions :
        tile_passable_for(chunk, fid, t) <=>
            /\ chunk.cost_base[t] # COST_IMPASSABLE
            /\ \/ chunk.blockers[t] = 0
               \/ /\ fid # FACTION_ID_NONE
                  /\ chunk.factions[t] # {}
                  /\ chunk.factions[t] \subseteq G_GetEnemyFactions(fid)

PortalTargeted ==
    IF flow.target.type = "TARGET_PORTAL" THEN {flow.target.port}
    ELSE IF flow.target.type = "TARGET_PORTALMASK" THEN flow.target.portalmask
    ELSE {}

\* C9: resolved with ignoreblock, a PORTAL or PORTAL_MASK target yields every
\* tile of the endpoint rectangles, so the retry of
\* N_FlowFieldUpdateIslandToNearest obtains a frontier that is not empty.
C9_RetryYieldsAllPortalTiles ==
    (/\ op = "N_FlowFieldUpdateIslandToNearest" /\ retried
     /\ PortalTargeted # {}) =>
        /\ natural # << >>
        /\ \A i \in PortalTargeted :
              SeqRange(PortalTiles(chunk.portals[i + 1])) \subseteq SeqRange(natural)

\* the passable tiles of the caller's local island that share the global
\* island of the natural seed s
IslandCandidates(s) ==
    {t \in Tiles : /\ field_tile_passable(chunk, t)
                   /\ chunk.local_islands[t] = caller_iid
                   /\ chunk.islands[t] = chunk.islands[s]}

\* the same, every global island counting as shared when s has none
IslandCandidatesOrAny(s) ==
    {t \in Tiles : /\ field_tile_passable(chunk, t)
                   /\ chunk.local_islands[t] = caller_iid
                   /\ (chunk.islands[s] = ISLAND_NONE
                       \/ chunk.islands[t] = chunk.islands[s])}

\* the least Manhattan distance from s to a tile of Cand(s)
CandidateDist(Cand(_), s) ==
    IF Cand(s) = {} THEN INT_MAX
    ELSE SetMin({manhattan_dist(t, s) : t \in Cand(s)})

\* the tiles of Cand(s) at the least distance any natural seed has to its
\* candidates
NearestCandidates(Cand(_)) ==
    LET least == SetMin({INT_MAX} \cup {CandidateDist(Cand, s) : s \in SeqRange(natural)})
    IN  {t \in Tiles : \E s \in SeqRange(natural) :
                          t \in Cand(s) /\ manhattan_dist(t, s) = least}

\* the entries the searches of all natural seeds collect, duplicates counted
RECURSIVE CollectedFrom(_)
CollectedFrom(i) ==
    IF i > Len(natural) THEN 0
    ELSE Cardinality({t \in IslandCandidatesOrAny(natural[i]) :
                        manhattan_dist(t, natural[i])
                            = CandidateDist(IslandCandidatesOrAny, natural[i])})
         + CollectedFrom(i + 1)

NoSeedInCallerIsland ==
    \A s \in SeqRange(natural) : chunk.local_islands[s] # caller_iid

StuckRegion ==
    Component({start_coord}, {t \in Tiles : ~field_tile_passable(chunk, t)})

\* the passable tiles 4-adjacent to the region
Perimeter ==
    {t \in Tiles : /\ field_tile_passable(chunk, t)
                   /\ \E u \in StuckRegion : Adjacent(u, t)}

NearestPathableDone == pc = "done" /\ op = "N_FlowFieldUpdateToNearestPathable"

\* C11: in N_FlowFieldUpdateToNearestPathable the tiles of integration value 0
\* are exactly the passable tiles 4-adjacent to the 4-connected impassable
\* region that holds the start tile.
C11_SeedsArePerimeter ==
    NearestPathableDone =>
        /\ {t \in Tiles : integration_field[t] = 0} = Perimeter
        /\ Seeds = Perimeter

C11_Witness ==
    /\ NearestPathableDone
    /\ Cardinality(StuckRegion) >= 2
    /\ Cardinality(Perimeter) >= 2
    /\ \E t \in Tiles : field_tile_passable(chunk, t) /\ ~(t \in Perimeter)

\* following dir_idx from t for at most k steps: every step enters a tile of
\* the chunk with a strictly smaller integration value, until a tile of value
\* 0 is reached, which is passable
RECURSIVE DescendsToPerimeter(_, _)
DescendsToPerimeter(t, k) ==
    IF integration_field[t] = 0 THEN field_tile_passable(chunk, t)
    ELSE /\ k > 0
         /\ flow.field[t] # FD_NONE
         /\ PointsDownhill(t)
         /\ DescendsToPerimeter(DirTile(t, flow.field[t]), k - 1)

\* C12: after N_FlowFieldUpdateToNearestPathable from an impassable start
\* tile whose search met a passable tile, the start tile has a direction and
\* following the directions from it descends to a passable perimeter tile.
C12_StartDescendsToPerimeter ==
    (NearestPathableDone /\ natural # << >>) =>
        /\ Finite(start_coord)
        /\ flow.field[start_coord] # FD_NONE
        /\ DescendsToPerimeter(start_coord, FIELD_RES_R * FIELD_RES_C)

C12_Witness ==
    /\ NearestPathableDone /\ natural # << >>
    /\ integration_field[start_coord] > COST_IMPASSABLE
    /\ entry_field[start_coord] # flow.field[start_coord]
    /\ DescendsToPerimeter(start_coord, FIELD_RES_R * FIELD_RES_C)

\* C13: N_FlowFieldUpdateToNearestPathable changes dir_idx only at impassable
\* tiles of finite non-zero integration value, every passable tile keeps the
\* direction held on entry, and in a chunk without a passable tile the
\* integration field stays INFINITY everywhere and the flow field is unchanged.
C13_WritesOnlyStuckTiles ==
    NearestPathableDone =>
        /\ \A t \in Tiles :
              flow.field[t] # entry_field[t] =>
                  /\ ~field_tile_passable(chunk, t)
                  /\ Finite(t) /\ integration_field[t] # 0
        /\ \A t \in Tiles :
              field_tile_passable(chunk, t) => flow.field[t] = entry_field[t]
        /\ (\A t \in Tiles : ~field_tile_passable(chunk, t)) =>
              /\ integration_field = InfinityField
              /\ flow.field = entry_field

C13_Witness ==
    /\ NearestPathableDone
    /\ \E t \in Tiles : flow.field[t] # entry_field[t]
    /\ \E t \in Tiles : field_tile_passable(chunk, t) /\ entry_field[t] # FD_NONE

\* the chunk without a passable tile: nothing is written
C13_WitnessBlocked ==
    /\ NearestPathableDone
    /\ \A t \in Tiles : ~field_tile_passable(chunk, t)
    /\ flow.field = entry_field

\* the integration field as a function of the seeds and the chunk alone
LeastCostField ==
    LeastCost([t \in Tiles |-> IF t \in Seeds THEN 0 ELSE INFINITY],
              FIELD_RES_R * FIELD_RES_C)

\* C14: the fields N_FlowFieldUpdate returns are a function of the chunk, the
\* target, the faction and the buffer on entry, whichever entry of least
\* priority the queue pops first: the seeds are those the target resolves to,
\* the integration field is the least path cost from them, and the flow field
\* is derived from that integration field and the buffer on entry.
C14_ResultDependsOnInputsOnly ==
    (pc = "done" /\ op = "N_FlowFieldUpdate") =>
        /\ Seeds = SeqRange(field_initial_frontier(flow.target, chunk, ents, FALSE,
                                                   faction_id, FIELD_RES_R * FIELD_RES_C))
        /\ integration_field = LeastCostField
        /\ flow.field = field_fixup(flow.target, LeastCostField,
                                    field_build_flow(LeastCostField, entry_field), chunk)

\* a run in which the queue held several entries of least priority while a
\* tile other than a seed was still to be popped
C14_Witness ==
    /\ pc = "integration" /\ op = "N_FlowFieldUpdate"
    /\ Cardinality(pq_coord_top(frontier)) >= 2
    /\ \E e \in pq_coord_top(frontier) : e.prio > 0

(***************************************************************************)
(* Properties of the line-of-sight field                                   *)
(***************************************************************************)
\* N_LOSFieldCreate has returned
LosReturned == los_pc = "done"

Near(a, b) == abs(a[1] - b[1]) <= 1 /\ abs(a[2] - b[2]) <= 1

\* the tiles the expansion has marked visible at some point
LosRelaxed == {t \in LosTiles : los_integration[t] > 0 /\ los_integration[t] < INFINITY}

\* C15: in the returned field no tile of the 3x3 neighbourhood of a
\* wavefront_blocked tile, the tile itself included, is visible; hence no
\* tile is both visible and wavefront_blocked.
C15_PaddingAroundWavefront ==
    LosReturned =>
        /\ \A t, u \in LosTiles :
              out_los[t].wavefront_blocked /\ Near(t, u) => ~out_los[u].visible
        /\ \A t \in LosTiles : ~(out_los[t].visible /\ out_los[t].wavefront_blocked)

\* a returned field where the padding has cleared a tile the expansion had
\* marked visible, diagonally next to a shadow line no tile of which touches
\* it by an edge
C15_Witness ==
    /\ LosReturned
    /\ \E t \in LosTiles, u \in LosRelaxed :
          /\ out_los[t].wavefront_blocked
          /\ Near(t, u)
          /\ \A b \in LosTiles : out_los[b].wavefront_blocked => ~Adjacent(b, u) /\ b # u
          /\ ~out_los[u].visible

\* the field returned is the one of the destination chunk
LosDestReturned == LosReturned /\ chunk_coord = los_target.chunk

\* From t a 4-connected path leads to the target along which the integration
\* value strictly decreases and no tile of which is wavefront_blocked
RECURSIVE LosDescends(_)
LosDescends(t) ==
    /\ ~out_los[t].wavefront_blocked
    /\ \/ t = los_target.tile
       \/ \E n \in LosTiles : /\ Adjacent(n, t)
                              /\ los_integration[n] < los_integration[t]
                              /\ LosDescends(n)

\* C16: in the field returned for the destination chunk every visible tile
\* has a 4-connected path to the target tile along which the integration
\* value strictly decreases and no tile of which has wavefront_blocked set.
C16_VisibleDescendsToTarget ==
    LosDestReturned => \A v \in LosTiles : out_los[v].visible => LosDescends(v)

\* the tiles of traversable cost that carry no blocker
LosPassable == {t \in LosTiles : field_tile_passable(chunk, t)}

\* the LOS corners of the chunk: impassable tiles with a blocked and a free
\* neighbour on opposite sides
LosCorners ==
    {t \in LosTiles \ LosPassable :
        field_is_los_corner(t, chunk.cost_base, chunk.blockers)}

\* the passable tiles 4-connected to the target through passable tiles
LosReachable ==
    Component({los_target.tile}, LosPassable \cup {los_target.tile}) \cap LosPassable

\* C17: in a destination chunk without LOS corner the returned field has
\* every passable tile that is 4-connected to the target through passable
\* tiles visible, and no tile wavefront_blocked.
C17_NoCornerFillsReachable ==
    LosDestReturned /\ LosCorners = {} =>
        /\ \A t \in LosReachable : out_los[t].visible
        /\ \A t \in LosTiles : ~out_los[t].wavefront_blocked

\* C18: every tile a shadow-line walk of the call has visited, from a copied
\* wavefront_blocked edge cell or from a corner found during the expansion,
\* is wavefront_blocked in the returned field; a later copy of a cell of the
\* shared edge does not clear it.
C18_WalkedStaysBlocked ==
    LosReturned => \A t \in walked : out_los[t].wavefront_blocked

\* N_LOSFieldCreate was called for a chunk other than the destination chunk
LosFarCalled ==
    los_pc # "idle" /\ chunk_coord # los_target.chunk /\ prev_los # NoPrevLos

\* b is the immediate north, south, east or west neighbour of the chunk a
NeighbourChunk(a, b) == abs(a[1] - b[1]) + abs(a[2] - b[2]) = 1

\* C20: for a chunk other than the destination chunk the shared edge is
\* selected only when the predecessor's chunk is the immediate north, south,
\* east or west neighbour; for any other predecessor chunk the call ends in
\* an assertion failure.
C20_AssertsUnlessNeighbour ==
    LosFarCalled => (los_pc = "assert" <=> ~NeighbourChunk(chunk_coord, prev_los.chunk))

(***************************************************************************)
(* Properties of the Bresenham walk                                        *)
(***************************************************************************)
\* C19: for every in-bounds corner and every quantised slope, dx = dy = 0
\* included, each iteration of the walk writes an in-bounds tile and moves
\* the cursor by at least one tile, and the walk ends, the cursor having left
\* the field, after at most LOS_RES_R + LOS_RES_C iterations.
C19_WalkMovesAndEnds ==
    /\ line_iters > 0 =>
          /\ LosInBounds(line_prev[1], line_prev[2])
          /\ line.curr # line_prev
    /\ line_pc = "walk" => line_iters < LOS_RES_R + LOS_RES_C
    /\ line_pc = "done" =>
          /\ ~LosInBounds(line.curr[1], line.curr[2])
          /\ line_iters <= LOS_RES_R + LOS_RES_C

\* a walk with dx = dy = 0 that has ended after more than one iteration
C19_Witness ==
    /\ line_pc = "done"
    /\ line.dx = 0 /\ line.dy = 0
    /\ line_iters > 1

\* a walk along one axis that has crossed the whole field
C19_WitnessLongest ==
    /\ line_pc = "done"
    /\ line_iters = LOS_RES_C

(***************************************************************************)
(* Properties of the regions                                               *)
(***************************************************************************)
\* C21: at every tick and after every sequence of G_Region_AddCircle /
\* AddRectangle, G_Region_SetPos, G_Region_AddRef / RemoveRef, an entity is
\* among the current members a region reports (G_Region_ContainsEnt,
\* G_Region_GetEnts) if and only if the region contains the entity's position
\* and the entity is neither a zombie nor a marker; entities standing inside
\* a region when it is added are members right after the add.
C21_MembersAreContained ==
    \A n \in Registered, uid \in Uids :
        /\ G_Region_ContainsEnt(n, uid) <=>
               (region_contains(s_regions[n], ent_pos[uid]) /\ ~ZombieOrMarker(uid))
        /\ G_Region_ContainsEnt(n, uid) <=> SeqHas(G_Region_GetEnts(n), uid)

\* the uids of a member vector
Members(seq) == {seq[k] : k \in 1 .. Len(seq)}

\* One EVENT_ENTERED_REGION for every uid of curr_ents that is not in
\* prev_ents and one EVENT_EXITED_REGION for every uid of prev_ents that is
\* not in curr_ents, for every region of S
ChangeEvents(S) ==
    SetToBag({Event("EVENT_ENTERED_REGION", u, n) :
                 <<n, u>> \in {c \in S \X Uids :
                     /\ c[2] \in Members(s_regions[c[1]].curr_ents)
                     /\ c[2] \notin Members(s_regions[c[1]].prev_ents)}}
             \cup
             {Event("EVENT_EXITED_REGION", u, n) :
                 <<n, u>> \in {c \in S \X Uids :
                     /\ c[2] \in Members(s_regions[c[1]].prev_ents)
                     /\ c[2] \notin Members(s_regions[c[1]].curr_ents)}})

\* a step of G_Region_Update that did not fail its assertion
UpdateStep == region_op' = "G_Region_Update" /\ region_ret' = TRUE

\* C22: G_Region_Update emits, for each region whose membership was touched
\* since the previous tick, exactly one ENTERED_REGION for every uid in
\* curr_ents but not in prev_ents, exactly one EXITED_REGION for every uid in
\* prev_ents but not in curr_ents, and no event for a uid in both; afterwards
\* prev_ents equals curr_ents and s_dirty is empty.
C22_UpdateNotifiesDifference ==
    [][UpdateStep =>
          /\ events' = ChangeEvents(s_dirty)
          /\ \A n \in s_dirty : s_regions'[n].prev_ents = s_regions'[n].curr_ents
          /\ s_dirty' = {}]_vars

\* C23: after adding a region named n and then removing it, with any
\* G_Region_SetPos, G_Region_AddRef and G_Region_RemoveRef calls in between,
\* no chunk list of s_intersecting contains n, s_dirty does not contain n and
\* n is no longer a key of the region table.
C23_RemoveLeavesNoTrace ==
    [][\A n \in RegionNames :
          G_Region_Remove(n) =>
             /\ n \notin DOMAIN s_regions'
             /\ n \notin s_dirty'
             /\ \A c \in 0 .. MapChunks - 1 : ~SeqHas(s_intersecting'[c], n)]_vars

\* no name that is not registered is left in a chunk list or in s_dirty
C23_UnregisteredUnknown ==
    \A n \in RegionNames \ Registered :
        /\ n \notin s_dirty
        /\ \A c \in 0 .. MapChunks - 1 : ~SeqHas(s_intersecting[c], n)

\* G_Region_Remove has removed the only region, which had members (entered
\* by G_Region_AddRef or by G_Region_SetPos) and intersected both chunks
C23_Witness ==
    /\ region_op = "G_Region_Remove"
    /\ events # EmptyBag
    /\ Registered = {}
    /\ \A c \in 0 .. MapChunks - 1 : s_intersecting[c] = << >>

\* the region table, the chunk lists and the dirty set are as they were
RegionsUntouched == UNCHANGED <<s_regions, s_intersecting, s_dirty>>

\* C24: G_Region_AddCircle / AddRectangle called with a name that is already
\* registered, or whose name duplication fails, returns false and leaves the
\* region table, the existing region's shape, position and members,
\* s_intersecting and s_dirty unchanged; G_Region_GetPos / SetPos /
\* ContainsEnt on an unregistered name return false, G_Region_GetEnts
\* returns 0 and G_Region_Remove does nothing.
C24_FailedCallsChangeNothing ==
    [][/\ \A c \in CircleCalls, alloc \in BOOLEAN :
             (G_Region_AddCircle(c[1], c[2], 1, alloc) /\ (c[1] \in Registered \/ ~alloc))
                 => (region_ret' = FALSE /\ RegionsUntouched)
       /\ \A c \in RectangleCalls, alloc \in BOOLEAN :
             (G_Region_AddRectangle(c[1], c[2], 2, alloc) /\ (c[1] \in Registered \/ ~alloc))
                 => (region_ret' = FALSE /\ RegionsUntouched)
       /\ \A c \in SetPosCalls :
             (G_Region_SetPos(c[1], c[2]) /\ c[1] \notin Registered)
                 => (region_ret' = FALSE /\ RegionsUntouched)
       /\ \A n \in RegionNames \ Registered :
             /\ G_Region_Remove(n) => (RegionsUntouched /\ events' = EmptyBag)
             /\ G_Region_GetPos(n).ret = FALSE
             /\ \A uid \in Uids : G_Region_ContainsEnt(n, uid) = FALSE
             /\ Len(G_Region_GetEnts(n)) = 0]_vars

\* an add has just failed on the name of a region that has a member, is
\* dirty and has been moved, while the other name is not registered
C24_Witness ==
    /\ region_op \in {"G_Region_AddCircle", "G_Region_AddRectangle"}
    /\ region_ret = FALSE
    /\ Registered = {"a"}
    /\ s_regions["a"].curr_ents # << >>
    /\ "a" \in s_dirty

\* G_Region_SetPos has just returned false while no name was registered
C24_WitnessSetPos ==
    /\ region_op = "G_Region_SetPos"
    /\ region_ret = FALSE
    /\ Registered = {}

(***************************************************************************)
(* Properties of the FlowField identity                                    *)
(***************************************************************************)
\* both calls have returned an identity
BothReturned == id_ret[1].status = "returned" /\ id_ret[2].status = "returned"

\* C25: N_FlowField_ID maps any two distinct (layer, target, chunk) triples
\* to distinct 64-bit ids, for layers below 16, chunk and tile coordinates
\* below 256 and faction ids of the data model.
C25_DistinctTriplesDistinctIds ==
    (BothReturned /\ id_args[1] # id_args[2]) => id_ret[1].id # id_ret[2].id

\* the same for the triples whose target is a tile, a portal or the enemies
\* of a faction
C25_DistinctIdsBelowPortalMask ==
    (/\ BothReturned
     /\ id_args[1] # id_args[2]
     /\ id_args[1].target.type # "TARGET_PORTALMASK"
     /\ id_args[2].target.type # "TARGET_PORTALMASK") => id_ret[1].id # id_ret[2].id

\* C26: N_FlowField_ID returns an identity, without failing an assertion,
\* for every target variant of the data model (TILE, PORTAL, PORTAL_MASK and
\* ENEMIES), and N_FlowField_Layer applied to that identity returns the
\* layer it was built from.
C26_EveryVariantHasIdentity ==
    \A slot \in {1, 2} :
        id_ret[slot] # NotCalled =>
            /\ id_ret[slot].status = "returned"
            /\ N_FlowField_Layer(id_ret[slot].id) = id_args[slot].layer

\* the same for the three variants N_FlowField_ID has a branch for
C26_IdentityBelowPortalMask ==
    \A slot \in {1, 2} :
        (/\ id_ret[slot] # NotCalled
         /\ id_args[slot].target.type # "TARGET_PORTALMASK") =>
            /\ id_ret[slot].status = "returned"
            /\ N_FlowField_Layer(id_ret[slot].id) = id_args[slot].layer

(***************************************************************************)
(* Properties of the frontier, of the calls and of the open field          *)
(***************************************************************************)
\* C27: during N_FlowFieldUpdate, N_FlowFieldUpdateIslandToNearest,
\* N_FlowFieldUpdateToNearestPathable and N_LOSFieldCreate the frontier
\* priority queue never holds more than R*C entries, including when the
\* reseeded frontier of N_FlowFieldUpdateIslandToNearest contains duplicate
\* coordinates.
C27_FrontierBounded ==
    /\ pq_size(frontier) <= FIELD_RES_R * FIELD_RES_C
    /\ pq_size(los_frontier) <= LOS_RES_R * LOS_RES_C

\* the frontier of N_FlowFieldUpdateIslandToNearest holds duplicate
\* coordinates and more than R*C entries
C27_DuplicatesOverflow ==
    /\ op = "N_FlowFieldUpdateIslandToNearest"
    /\ Len(init_frontier) > Cardinality(SeqRange(init_frontier))
    /\ pq_size(frontier) > FIELD_RES_R * FIELD_RES_C

\* C28: N_FlowFieldUpdate with an ENEMIES target completes without failing
\* an assertion for every entity population of the searched area, including
\* when the position index returns no entity at all; in that case the
\* frontier is empty and the flow directions are left unchanged.
C28_EnemiesUpdateCompletes ==
    op = "N_FlowFieldUpdate" =>
        /\ pc # "assert"
        /\ (flow.target.type = "TARGET_ENEMIES" /\ ents = {}) =>
               /\ frontier = EmptyBag
               /\ pc = "done" => flow.field = entry_field

\* the call for an empty population in a build without assertions: nothing
\* is seeded and the flow directions stay
C28_WithoutAssertions ==
    (op = "N_FlowFieldUpdate" /\ pc # "assert"
        /\ flow.target.type = "TARGET_ENEMIES" /\ ents = {}) =>
        /\ frontier = EmptyBag
        /\ pc = "done" => flow.field = entry_field

\* C29: however the steps of several N_FlowFieldUpdate invocations on one
\* unmodified chunk interleave, every invocation leaves in its own buffer what
\* it leaves there when it runs alone.
C29_InterleavedJobsMatchAlone ==
    \A j \in Jobs :
        jobs[j].pc = "done" =>
            jobs[j].flow = N_FlowFieldUpdate_alone(chunk, faction_id, jobs[j].flow.target,
                                                   IdleJob.flow.field)

\* both invocations have returned, each after steps taken while the other
\* was inside the function, for different targets and with different fields
C29_Witness ==
    /\ \A j \in Jobs : jobs[j].pc = "done" /\ jobs[j].beside
    /\ jobs[1].flow.target # jobs[2].flow.target
    /\ jobs[1].flow.field # jobs[2].flow.field

\* the call on the open chunk for the tile (4,4) has built its flow field
OpenFieldBuilt == open_pc = "done" /\ open_flow.target = TileTarget(<<4, 4>>)

\* the three directions the claim names
OpenFlowAsClaimed ==
    /\ open_flow.field[<<0, 0>>] = FD_SE
    /\ open_flow.field[<<4, 0>>] = FD_E
    /\ open_flow.field[<<4, 4>>] = FD_NONE

\* C30: in an 8x8 chunk with cost 1 on every tile and a TILE target at (4,4),
\* N_FlowFieldUpdate gives every tile an integration value equal to its
\* Chebyshev distance to (4,4), with flow SE at (0,0), E at (4,0) and NONE at
\* (4,4).
C30_IntegrationIsChebyshev ==
    OpenFieldBuilt =>
        /\ \A t \in OpenTiles : open_integration[t] = chebyshev_dist(t, <<4, 4>>)
        /\ OpenFlowAsClaimed

\* C30, amended: the integration value of every tile is its Manhattan
\* distance to (4,4), the sum of the row and the column difference; the three
\* flow directions are as claimed. While the call runs, every tile the
\* wavefront has reached already holds that value.
C30_IntegrationIsManhattan ==
    /\ (open_pc # "idle" /\ open_flow.target = TileTarget(<<4, 4>>)) =>
           \A t \in OpenTiles :
               open_integration[t] \in {INFINITY, manhattan_dist(t, <<4, 4>>)}
    /\ OpenFieldBuilt =>
           /\ \A t \in OpenTiles : open_integration[t] = manhattan_dist(t, <<4, 4>>)
           /\ OpenFlowAsClaimed

\* the field for (4,4) is built and the corner (0,0), four diagonal steps
\* from the target, has the integration value 8
C30_Witness ==
    /\ OpenFieldBuilt
    /\ open_integration[<<0, 0>>] = 8
    /\ chebyshev_dist(<<0, 0>>, <<4, 4>>) = 4

(***************************************************************************)
(* Properties of the chunk with the wall                                   *)
(***************************************************************************)
\* the call on the chunk with the wall for the tile (2,6) has built its field
WallFieldBuilt == open_pc = "done" /\ open_flow.target = TileTarget(<<2, 6>>)

\* C31: in an 8x8 chunk with cost 1 everywhere except an impassable wall on
\* column 3 for rows 0..4, and a TILE target at (2,6), N_FlowFieldUpdate
\* yields flow S at (2,0), S at (2,2) and E at (5,2).
C31_WallFlowAsClaimed ==
    WallFieldBuilt =>
        /\ open_flow.field[<<2, 0>>] = FD_S
        /\ open_flow.field[<<2, 2>>] = FD_S
        /\ open_flow.field[<<5, 2>>] = FD_E

\* C31, amended: the flow at (2,0) is SE, because the diagonal neighbour
\* (3,1) has the least integration value there and both (3,0) and (2,1) are
\* passable; S at (2,2) and E at (5,2) are as claimed.
C31_WallFlowSouthEast ==
    WallFieldBuilt =>
        /\ open_flow.field[<<2, 0>>] = FD_SE
        /\ open_flow.field[<<2, 2>>] = FD_S
        /\ open_flow.field[<<5, 2>>] = FD_E
        /\ \A t \in OpenTiles : (chunk.cost_base[t] = COST_IMPASSABLE) =
                                   (open_integration[t] = INFINITY)

\* the field for (2,6) is built: the wavefront has gone round the wall, (2,0)
\* is 12 steps from the target and its neighbours (3,0) and (3,1) hold 11
\* and 10
C31_Witness ==
    /\ WallFieldBuilt
    /\ open_integration[<<2, 0>>] = 12
    /\ open_integration[<<3, 0>>] = 11
    /\ open_integration[<<3, 1>>] = 10
    /\ open_integration[<<2, 3>>] = INFINITY

(***************************************************************************)
(* Properties of the line of sight behind a single blocker                 *)
(***************************************************************************)
\* N_LOSFieldCreate has returned the field of the chunk with the single
\* impassable tile (4,4) for the target (7,7)
SingleBlockerDone ==
    /\ los_pc = "done"
    /\ chunk = SingleBlockerChunk
    /\ los_target.tile = <<7, 7>>

\* the tiles of the diagonal from (3,3) to (0,0)
ShadowDiagonal == {<<3, 3>>, <<2, 2>>, <<1, 1>>, <<0, 0>>}

\* C32: in an 8x8 chunk with the LOS target at (7,7) and a single impassable
\* tile at (4,4), N_LOSFieldCreate treats (4,4) as a LOS corner and draws a
\* shadow line from it toward (0,0): at least (3,3), (2,2), (1,1) and (0,0)
\* have wavefront_blocked set and every tile in the 3x3 neighbourhood of each
\* is not visible.
C32_ShadowBehindSingleBlocker ==
    SingleBlockerDone =>
        /\ field_is_los_corner_open(<<4, 4>>, chunk.cost_base, chunk.blockers)
        /\ \A b \in ShadowDiagonal :
               /\ out_los[b].wavefront_blocked
               /\ \A t \in OpenTiles :
                      (abs(b[1] - t[1]) <= 1 /\ abs(b[2] - t[2]) <= 1) =>
                          ~out_los[t].visible

\* what the code returns for the single blocker: no tile is wavefront_blocked
\* and every tile but (4,4) is visible
C32_NoShadowBehindSingleBlocker ==
    SingleBlockerDone =>
        \A t \in OpenTiles :
            /\ ~out_los[t].wavefront_blocked
            /\ out_los[t].visible = (t # <<4, 4>>)

\* with (4,5) impassable as well, (4,4) is a corner and the tiles of the
\* diagonal behind it are wavefront_blocked
C32_ShadowBehindPair ==
    (los_pc = "done" /\ chunk = PairBlockerChunk /\ los_target.tile = <<7, 7>>) =>
        \A b \in ShadowDiagonal : out_los[b].wavefront_blocked

(***************************************************************************)
(* Properties of the chunk with the impassable block                       *)
(***************************************************************************)
\* N_FlowFieldUpdateToNearestPathable runs or has run from the start (3,3)
BlockCallFromCentre == open_pc # "idle" /\ start_coord = <<3, 3>>

\* the tiles that hold the integration value 0
ZeroTiles == {t \in OpenTiles : open_integration[t] = 0}

\* the passable tiles that share an edge with a tile of the block
BlockPerimeter ==
    {t \in OpenTiles \ BlockTiles : \E b \in BlockTiles : manhattan_dist(t, b) = 1}

\* C33: in an 8x8 chunk whose only impassable tiles are the 3x3 block with
\* rows and columns in {2,3,4}, N_FlowFieldUpdateToNearestPathable from start
\* (3,3) gives integration value 0 to exactly 8 surrounding passable perimeter
\* tiles and gives (3,3) a direction other than NONE.
C33_EightPerimeterTiles ==
    (BlockCallFromCentre /\ open_pc = "done") =>
        /\ Cardinality(ZeroTiles) = 8
        /\ ZeroTiles \subseteq OpenTiles \ BlockTiles
        /\ open_flow.field[<<3, 3>>] # FD_NONE

\* C33, amended: the integration value 0 goes to exactly the 12 passable tiles
\* that share an edge with a tile of the block, from the seeding on, and
\* (3,3) gets a direction other than NONE.
C33_TwelvePerimeterTiles ==
    BlockCallFromCentre =>
        /\ ZeroTiles = BlockPerimeter
        /\ Cardinality(ZeroTiles) = 12
        /\ open_pc = "done" => open_flow.field[<<3, 3>>] # FD_NONE

\* the call from (3,3) has returned: (3,3) holds the cost of two impassable
\* steps and a direction, the corner tile (1,1) next to the block was not
\* reached
C33_Witness ==
    /\ BlockCallFromCentre
    /\ open_pc = "done"
    /\ open_integration[<<3, 3>>] = 2 * COST_IMPASSABLE
    /\ open_flow.field[<<3, 3>>] # FD_NONE
    /\ open_integration[<<1, 1>>] = INFINITY
    /\ open_integration[<<1, 2>>] = 0

(***************************************************************************)
(* Properties of the walk along the flow                                   *)
(***************************************************************************)
\* N_FlowFieldUpdate has built the field of a buffer that N_FlowFieldInit had
\* cleared
FreshUpdateDone == pc = "done" /\ op = "N_FlowFieldUpdate" /\ phase = "fresh"

\* stepping from t to the neighbour dir_idx names, at most k times: every
\* tile stepped onto lies in the chunk and has a finite integration value,
\* and the walk arrives at a seed
RECURSIVE WalkReachesSeed(_, _)
WalkReachesSeed(t, k) ==
    IF t \in Seeds THEN TRUE
    ELSE /\ k > 0
         /\ flow.field[t] # FD_NONE
         /\ LET n == DirTile(t, flow.field[t])
            IN  /\ n \in Tiles
                /\ Finite(n)
                /\ WalkReachesSeed(n, k - 1)

\* C34: after N_FlowFieldUpdate on a field freshly set by N_FlowFieldInit,
\* the walk that starts at any tile of finite integration value and steps to
\* the neighbour dir_idx names only steps onto tiles of finite integration
\* value and reaches a seed tile within R*C steps.
C34_FlowWalkReachesSeed ==
    FreshUpdateDone =>
        \A t \in Tiles : Finite(t) => WalkReachesSeed(t, FIELD_RES_R * FIELD_RES_C)

\* a fresh update has built a field in which some tile is four steps of the
\* walk away from its seed and some tile was not reached by the wavefront
C34_Witness ==
    /\ FreshUpdateDone
    /\ \E t \in Tiles : /\ Finite(t)
                         /\ WalkReachesSeed(t, 4)
                         /\ ~WalkReachesSeed(t, 3)
    /\ \E t \in Tiles : ~Finite(t)

(***************************************************************************)
(* field_flow_dir on fields whose sides differ                             *)
(***************************************************************************)
\* FIELD_RES_R and FIELD_RES_C of the fields: more columns than rows, more
\* rows than columns, and a square
DirGrids == {<<DirShort, DirLong>>, <<DirLong, DirShort>>, <<DirShort, DirShort>>}

DirTiles(rows, cols) == (0 .. rows - 1) \X (0 .. cols - 1)

DirValues == (0 .. DirMaxCost) \cup {INFINITY}

\* the tiles of the field that share an edge with t
dir_edge_neighbours(rows, cols, t) ==
    {n \in DirTiles(rows, cols) : abs(n[1] - t[1]) + abs(n[2] - t[2]) = 1}

\* What field_build_integration leaves: the value of a reached tile other
\* than a target is the value of a tile over an edge plus a positive cost
DirFieldBuilt(rows, cols, f) ==
    \A t \in DirTiles(rows, cols) :
        (f[t] # 0 /\ f[t] < INFINITY)
            => \E n \in dir_edge_neighbours(rows, cols, t) : f[n] < f[t]

\* field_build_flow calls field_flow_dir for the tiles of a finite value
\* other than 0
DirInputs ==
    UNION {UNION {{[rows |-> g[1], cols |-> g[2], intf |-> f, coord |-> t] :
                     t \in {u \in DirTiles(g[1], g[2]) : f[u] # 0 /\ f[u] < INFINITY}} :
                  f \in {h \in [DirTiles(g[1], g[2]) -> DirValues] :
                            DirFieldBuilt(g[1], g[2], h)}} :
           g \in DirGrids}

DirReturned(d) == [status |-> "returned", dir |-> d]
DirAssertFailed == [status |-> "assert", dir |-> 0]

\* One call of field_flow_dir. The last else holds assert(0) and return 0:
\* the assertion fails, or under NDEBUG the 0 is returned
DirCall(args, ndebug) ==
    /\ dir_ret = DirNotCalled
    /\ dir_args' = args
    /\ LET d == flow_dir(args.rows, args.cols, args.intf, args.coord)
       IN  dir_ret' = IF d = 0 /\ ~ndebug THEN DirAssertFailed ELSE DirReturned(d)
    /\ UNCHANGED dir_others

DirInit ==
    /\ chunk = BlockedChunk
    /\ faction_id = FACTION_ID_NONE
    /\ chunk_coord = ThisChunk
    /\ FlowIdle
    /\ LosIdle
    /\ LineIdle
    /\ RestIdle

DirNext == \E args \in DirInputs, ndebug \in BOOLEAN : DirCall(args, ndebug)

DirSpec == DirInit /\ [][DirNext]_vars

\* the call came to the last else of field_flow_dir
DirFellThrough == dir_ret.status = "assert" \/ dir_ret = DirReturned(0)

\* the neighbours field_flow_dir takes the minimum over: the tiles over an
\* edge, and a tile over a corner when both tiles beside it are finite
dir_eligible(a) ==
    {n \in DirTiles(a.rows, a.cols) :
        /\ n # a.coord
        /\ abs(n[1] - a.coord[1]) <= 1
        /\ abs(n[2] - a.coord[2]) <= 1
        /\ (n[1] # a.coord[1] /\ n[2] # a.coord[2])
              => /\ a.intf[<<n[1], a.coord[2]>>] < INFINITY
                 /\ a.intf[<<a.coord[1], n[2]>>] < INFINITY}

\* the tile to the south-east is the one eligible neighbour of the least value
SouthEastOnlyMinimum(a) ==
    LET se == <<a.coord[1] + 1, a.coord[2] + 1>>
    IN  /\ se \in dir_eligible(a)
        /\ \A n \in dir_eligible(a) \ {se} : a.intf[se] < a.intf[n]

\* a field of rows x cols tiles with a tile whose south-east is lost
SouthEastLost(rows, cols) ==
    \E a \in DirInputs :
        /\ a.rows = rows
        /\ a.cols = cols
        /\ SouthEastOnlyMinimum(a)
        /\ flow_dir(a.rows, a.cols, a.intf, a.coord) = 0

\* C35 as stated: whenever FIELD_RES_R and FIELD_RES_C differ there is a
\* field and a tile whose only least eligible neighbour is the south-east
\* one and for which the call falls through to assert(0); on a square field
\* every call returns a direction
C35_SouthEastLostWheneverSidesDiffer ==
    dir_ret # DirNotCalled =>
        /\ dir_args.rows # dir_args.cols => SouthEastLost(dir_args.rows, dir_args.cols)
        /\ dir_args.rows = dir_args.cols => ~DirFellThrough

\* C35: field_flow_dir falls through to assert(0) only on a field of fewer
\* rows than columns, for a tile of a column from FIELD_RES_R - 1 on whose
\* only least eligible neighbour is the south-east one, and it does so for
\* every such tile whose south-east neighbour is below all its neighbours;
\* on a field of at least as many rows as columns every call returns a
\* direction
C35_SouthEastLostOnWideFields ==
    dir_ret # DirNotCalled =>
        LET a  == dir_args
            se == <<a.coord[1] + 1, a.coord[2] + 1>>
        IN  /\ DirFellThrough =>
                  /\ a.rows < a.cols
                  /\ a.coord[2] >= a.rows - 1
                  /\ SouthEastOnlyMinimum(a)
            /\ (/\ a.rows < a.cols
                /\ a.coord[2] >= a.rows - 1
                /\ SouthEastOnlyMinimum(a)
                /\ \A n \in DirTiles(a.rows, a.cols) \ {a.coord, se} :
                      (abs(n[1] - a.coord[1]) <= 1 /\ abs(n[2] - a.coord[2]) <= 1)
                          => a.intf[se] < a.intf[n])
                  => DirFellThrough
            /\ a.rows >= a.cols => dir_ret.dir \in FD_NW .. FD_SE

\* a call on a field of more columns than rows whose assert(0) failed, and
\* the tile's only least eligible neighbour is the one to the south-east
C35_Witness ==
    /\ dir_ret = DirAssertFailed
    /\ dir_args.rows < dir_args.cols
    /\ SouthEastOnlyMinimum(dir_args)

(***************************************************************************)
(* py_region.c: construction and release of the objects of type pf.Region  *)
(***************************************************************************)
\* the process has not been ended by a failed assertion or a fault
PyAlive == py_ret \notin {"assert", "crash"}

\* what a read of the freed copy of a name can yield beside a name
PyGarbage == "garbage"

\* tp_alloc hands out the memory of an object not used before
PyFresh == {o \in PyObjs : py_objs[o].state = "unused"}

\* The test for a failed pf_strdup in PyRegion_new, if(!name): of the name
\* parsed from the arguments, not of the copy. A variant testing the copy
strdup_failed_copy(name, copy) == copy = PyNull

strdup_failed(name, copy) == name = PyNull

\* region_add returns false for a registered name and for a failed
\* allocation; region.c is left as it is then
region_add_fails(name, alloc) == name \in Registered \/ ~alloc

\* the switch of PyRegion_new over the type: a circle of radius 1 or a
\* rectangle of length 2
PyAddRegion(kind, name, pos, alloc) ==
    IF kind = "REGION_CIRCLE" THEN G_Region_AddCircle(name, pos, 1, alloc)
    ELSE G_Region_AddRectangle(name, pos, 2, alloc)

PyCalled(op_name, obj, name, copy, status, ret) ==
    /\ py_call' = [op |-> op_name, obj |-> obj, name |-> name, copy |-> copy,
                   status |-> status]
    /\ py_ret' = ret
    /\ UNCHANGED py_others

\* kh_get of a key, and kh_del of what it found, which leaves the table alone
\* for a key that is not in it
py_table_has(key) == key \in PyKeys /\ py_table[key] # 0

py_table_del(key) == IF py_table_has(key) THEN [py_table EXCEPT ![key] = 0] ELSE py_table

\* PyRegion_dealloc of an object whose name reads as key: kh_get,
\* assert(k != kh_end), kh_del, G_Region_Remove, free. The read of a null or
\* freed name is undefined, and so is the free of a freed name: fault says
\* whether the process ends in one of them. before is the call of region.c
\* the caller made, the last one if the process ends here
PyDealloc(key, ndebug, fault, before, op_name, obj, name, copy, status, ret) ==
    IF fault \/ (~py_table_has(key) /\ ~ndebug)
    THEN /\ UNCHANGED py_table
         /\ before
         /\ PyCalled(op_name, obj, name, copy, status, IF fault THEN "crash" ELSE "assert")
    ELSE /\ py_table' = py_table_del(key)
         /\ G_Region_Remove(key)
         /\ PyCalled(op_name, obj, name, copy, status, ret)

\* PyRegion_new with arguments that parse, of type kind.
\*   self_ok    tp_alloc finds memory
\*   copy       what pf_strdup(name) returns: the name or PyNull
\*   alloc      region_add finds memory
\*   put_ok     kh_put finds memory
\*   seen       what the name of the object reads as once the copy is freed
\*   fault      an undefined read or free ends the process
PyRegion_new(kind, name, pos, self_ok, copy, alloc, put_ok, seen, ndebug, fault) ==
    /\ PyAlive
    /\ PyFresh # {}
    /\ LET obj == CHOOSE o \in PyFresh : \A q \in PyFresh : o <= q
       IN  IF kind \notin {"REGION_CIRCLE", "REGION_RECTANGLE"}
           THEN /\ UNCHANGED <<py_table, py_objs, region_vars>>
                /\ PyCalled("PyRegion_new", 0, name, PyNull, FALSE, "TypeError")
           ELSE IF ~self_ok
           THEN /\ UNCHANGED <<py_table, py_objs, region_vars>>
                /\ PyCalled("PyRegion_new", 0, name, PyNull, FALSE, "MemoryError")
           ELSE IF strdup_failed(name, copy)
           THEN \* Py_DECREF(self) of an object whose name is still null
                /\ py_objs' = [py_objs EXCEPT ![obj] = [state |-> "dead", name |-> PyNull]]
                /\ PyDealloc(PyNull, ndebug, fault, UNCHANGED region_vars,
                             "PyRegion_new", obj, name, copy, FALSE, "MemoryError")
           ELSE IF region_add_fails(name, alloc)
           THEN \* free(copy), then Py_DECREF(self) runs PyRegion_dealloc on
                \* the object, whose name is the freed copy or null
                LET key == IF copy = PyNull THEN PyNull ELSE seen
                IN  /\ py_objs' = [py_objs EXCEPT
                                      ![obj] = [state |-> "dead", name |-> copy]]
                    /\ PyDealloc(key, ndebug, fault, PyAddRegion(kind, name, pos, alloc),
                                 "PyRegion_new", obj, name, copy, FALSE, "RuntimeError")
           ELSE \* the region is registered; kh_put of self->name
                /\ PyAddRegion(kind, name, pos, alloc)
                /\ py_objs' = [py_objs EXCEPT ![obj] = [state |-> "live", name |-> copy]]
                /\ IF (copy = PyNull /\ fault)
                   THEN /\ UNCHANGED py_table
                        /\ PyCalled("PyRegion_new", obj, name, copy, TRUE, "crash")
                   ELSE IF (~put_ok \/ py_table[copy] # 0) /\ ~ndebug
                   THEN /\ UNCHANGED py_table
                        /\ PyCalled("PyRegion_new", obj, name, copy, TRUE, "assert")
                   ELSE IF ~put_ok
                   THEN \* kh_value of kh_end: a write past the values
                        /\ UNCHANGED py_table
                        /\ PyCalled("PyRegion_new", obj, name, copy, TRUE,
                                    IF fault THEN "crash" ELSE "object")
                   ELSE /\ py_table' = [py_table EXCEPT ![copy] = obj]
                        /\ PyCalled("PyRegion_new", obj, name, copy, TRUE, "object")

\* The last reference to a live object goes: PyRegion_dealloc
PyRegion_dealloc(obj, ndebug, fault) ==
    /\ PyAlive
    /\ py_objs[obj].state = "live"
    /\ py_objs' = [py_objs EXCEPT ![obj].state = "dead"]
    /\ LET key == py_objs[obj].name
       IN  PyDealloc(key, ndebug, fault /\ key = PyNull, UNCHANGED region_vars,
                     "PyRegion_dealloc", obj, key, key, FALSE, "released")

PyKinds == {"REGION_CIRCLE", "REGION_RECTANGLE", "REGION_OTHER"}
PyNames == {"a", "b"}
\* what the freed copy reads as, where the constructor reads it, and whether
\* kh_put finds memory, where the constructor calls it
PySeenIn(name, copy_ok, alloc) ==
    IF copy_ok /\ region_add_fails(name, alloc) THEN PyNames \cup {PyGarbage}
    ELSE {PyGarbage}
PyPutIn(name, alloc) == IF region_add_fails(name, alloc) THEN {TRUE} ELSE BOOLEAN

PyInit ==
    /\ chunk = BlockedChunk
    /\ faction_id = FACTION_ID_NONE
    /\ chunk_coord = ThisChunk
    /\ FlowIdle
    /\ LosIdle
    /\ LineIdle
    /\ RestIdle

PyNext ==
    \/ \E kind \in PyKinds, name \in PyNames, pos \in {1},
          self_ok, copy_ok, alloc, ndebug, fault \in BOOLEAN :
          \E seen \in PySeenIn(name, copy_ok, alloc), put_ok \in PyPutIn(name, alloc) :
             PyRegion_new(kind, name, pos, self_ok, IF copy_ok THEN name ELSE PyNull,
                          alloc, put_ok, seen, ndebug, fault)
    \/ \E obj \in PyObjs, ndebug, fault \in BOOLEAN : PyRegion_dealloc(obj, ndebug, fault)

PySpec == PyInit /\ [][PyNext]_vars

\* the last call was PyRegion_new, got its object, and pf_strdup failed in it
PyNewWithoutCopy ==
    /\ py_call.op = "PyRegion_new"
    /\ py_call.obj # 0
    /\ py_call.copy = PyNull

\* C36: a PyRegion_new whose pf_strdup returned NULL does not come to a
\* MemoryError: it stores the null name in the object and goes on to call
\* G_Region_AddCircle or G_Region_AddRectangle, which registers the region
\* where it returns true
C36_FailedCopyNotCaught ==
    PyNewWithoutCopy =>
        /\ py_ret # "MemoryError"
        /\ py_objs[py_call.obj].name = PyNull
        /\ region_op \in {"G_Region_AddCircle", "G_Region_AddRectangle",
                          "G_Region_Remove"}
        /\ py_call.status => py_call.name \in Registered

\* a constructor without its copy that registered the region and returned
\* the object, which is in the table under the null name
C36_Witness ==
    /\ PyNewWithoutCopy
    /\ py_call.status
    /\ py_call.name \in Registered
    /\ py_ret = "object"
    /\ py_table[PyNull] = py_call.obj

\* C38: a step of PyRegion_new in which G_Region_AddCircle or
\* G_Region_AddRectangle returns false for a registered name leaves the
\* region of that name and the entry of the table under it in place, and no
\* assertion fails in it
C38_FailedConstructionLeavesRegion ==
    [][(/\ py_call'.op = "PyRegion_new"
        /\ py_call'.obj # 0
        /\ ~py_call'.status
        /\ py_call'.name \in DOMAIN s_regions)
          => /\ py_call'.name \in DOMAIN s_regions'
             /\ s_regions'[py_call'.name] = s_regions[py_call'.name]
             /\ py_table'[py_call'.name] = py_table[py_call'.name]
             /\ py_ret' # "assert"]_vars

\* the same for the one outcome in which the freed copy reads as the name
\* and nothing faults: the earlier region and its entry are gone
C38_EarlierRegionRemoved ==
    /\ py_call.op = "PyRegion_new"
    /\ py_call.copy = py_call.name
    /\ ~py_call.status
    /\ py_ret = "RuntimeError"
    /\ region_op = "G_Region_Remove"
    /\ py_call.name \notin Registered
    /\ \E o \in PyObjs : py_objs[o] = [state |-> "live", name |-> py_call.name]
    /\ py_table[py_call.name] = 0

(***************************************************************************)
(* region.c: the notifications as their handlers receive them              *)
(***************************************************************************)
\* A handler of both events of an entity and a region name takes the entity
\* for inside the region after EVENT_ENTERED_REGION and for outside after
\* EVENT_EXITED_REGION; an event that repeats the one before it, or an exit
\* before any entry, is out of turn
hear(h, ev) ==
    LET p == <<ev.uid, ev.arg>>
    IN  IF ev.type = "EVENT_ENTERED_REGION"
        THEN [h EXCEPT ![p] = IF @ = "outside" THEN "inside" ELSE "out of turn"]
        ELSE [h EXCEPT ![p] = IF @ = "inside" THEN "outside" ELSE "out of turn"]

RECURSIVE hear_all(_, _)
hear_all(h, evs) == IF evs = << >> THEN h ELSE hear_all(hear(h, Head(evs)), Tail(evs))

\* the notifications of G_Region_Remove in the order of the loop
remove_notifications(name) ==
    IF name \notin Registered THEN << >>
    ELSE [i \in 1 .. Len(s_regions[name].curr_ents) |->
             Event("EVENT_EXITED_REGION", s_regions[name].curr_ents[i], name)]

\* the notifications of G_Region_Update heard region by region
RECURSIVE update_heard(_, _)
update_heard(S, h) ==
    IF S = {} THEN h
    ELSE LET n == CHOOSE m \in S : TRUE
         IN  update_heard(S \ {n}, hear_all(h, region_notify_changed(n, s_regions[n])))

EventNames == {"a"}
\* entity 1 and the entity of the large uid step in and out of the circle
EventPosCalls == {c \in {1, BigUid} \X Positions : c[2] \in {0, 1}}

EventInit ==
    /\ chunk = BlockedChunk
    /\ faction_id = FACTION_ID_NONE
    /\ chunk_coord = ThisChunk
    /\ FlowIdle
    /\ LosIdle
    /\ LineIdle
    /\ RestIdle

EventNext ==
    \/ \E name \in EventNames, alloc \in BOOLEAN :
          G_Region_AddCircle(name, 1, 1, alloc) /\ UNCHANGED <<py_vars, heard>>
    \/ \E name \in EventNames :
          /\ G_Region_Remove(name)
          /\ heard' = hear_all(heard, remove_notifications(name))
          /\ UNCHANGED py_vars
    \/ \E name \in EventNames, pos \in {1, 2} :
          G_Region_SetPos(name, pos) /\ UNCHANGED <<py_vars, heard>>
    \/ \E c \in EventPosCalls : G_Pos_Set(c[1], c[2]) /\ UNCHANGED <<py_vars, heard>>
    \/ /\ G_Region_Update
       /\ heard' = IF s_dirty \subseteq Registered THEN update_heard(s_dirty, heard)
                   ELSE heard
       /\ UNCHANGED py_vars

EventSpec == EventInit /\ [][EventNext]_vars

\* C37: for every entity and region name the handlers receive
\* EVENT_ENTERED_REGION and EVENT_EXITED_REGION in turn, beginning with
\* EVENT_ENTERED_REGION, over every sequence of adds, removes, moves of
\* regions and entities, and ticks
C37_EventsAlternate == \A p \in DOMAIN heard : heard[p] # "out of turn"

\* a G_Region_Remove that sent EVENT_EXITED_REGION for an entity whose
\* EVENT_ENTERED_REGION was never sent
C37_ExitWithoutEntry ==
    /\ region_op = "G_Region_Remove"
    /\ \E p \in DOMAIN heard :
          /\ heard[p] = "out of turn"
          /\ BagIn(Event("EVENT_EXITED_REGION", p[1], p[2]), events)

\* a G_Region_Remove after which a handler still takes an entity for inside
\* the removed region: its EVENT_EXITED_REGION was not sent
C37_EntryWithoutExit ==
    /\ region_op = "G_Region_Remove"
    /\ \E p \in DOMAIN heard :
          /\ heard[p] = "inside"
          /\ p[2] \in EventNames
          /\ p[2] \notin Registered

(***************************************************************************)
(* region.c: the names of s_dirty and s_intersecting                       *)
(***************************************************************************)
\* G_Region_RemoveEnt: the entity leaves the regions at the position it has
G_Region_RemoveEnt(uid) ==
    /\ LET removed == regions_remove_ent([regions |-> s_regions, dirty |-> s_dirty],
                                         uid, ent_pos[uid], s_intersecting)
       IN  /\ s_regions' = removed.regions
           /\ s_dirty' = removed.dirty
    /\ RegionCalled("G_Region_RemoveEnt", TRUE)
    /\ events' = EmptyBag
    /\ UNCHANGED <<s_intersecting, ent_pos>>

DirtyInit ==
    /\ chunk = BlockedChunk
    /\ faction_id = FACTION_ID_NONE
    /\ chunk_coord = ThisChunk
    /\ FlowIdle
    /\ LosIdle
    /\ LineIdle
    /\ RestIdle

DirtyNext ==
    \/ \E c \in CircleCalls, alloc \in BOOLEAN :
          G_Region_AddCircle(c[1], c[2], 1, alloc) /\ UNCHANGED <<py_vars, heard>>
    \/ \E c \in RectangleCalls, alloc \in BOOLEAN :
          G_Region_AddRectangle(c[1], c[2], 2, alloc) /\ UNCHANGED <<py_vars, heard>>
    \/ \E name \in RegionNames : G_Region_Remove(name) /\ UNCHANGED <<py_vars, heard>>
    \/ \E c \in SetPosCalls : G_Region_SetPos(c[1], c[2]) /\ UNCHANGED <<py_vars, heard>>
    \/ \E c \in PosCalls : G_Pos_Set(c[1], c[2]) /\ UNCHANGED <<py_vars, heard>>
    \/ \E uid \in Uids : G_Region_RemoveEnt(uid) /\ UNCHANGED <<py_vars, heard>>
    \/ G_Region_Update /\ UNCHANGED <<py_vars, heard>>

DirtySpec == DirtyInit /\ [][DirtyNext]_vars

\* the names of the chunk lists of s_intersecting
IntersectingNames ==
    UNION {{s_intersecting[c][i] : i \in 1 .. Len(s_intersecting[c])} :
           c \in DOMAIN s_intersecting}

\* C39: after any sequence of G_Region_AddCircle, G_Region_AddRectangle,
\* G_Region_Remove, G_Region_SetPos, G_Region_AddRef, G_Region_RemoveRef,
\* G_Region_RemoveEnt and G_Region_Update every name of s_dirty and every
\* name of a chunk list of s_intersecting is a key of the region table, and
\* no lookup asserted in regions_at_point or G_Region_Update has failed
C39_DirtyAndIntersectingRegistered ==
    /\ s_dirty \subseteq Registered
    /\ IntersectingNames \subseteq Registered
    /\ region_ret \in BOOLEAN

\* a G_Region_Remove of a region with members while another region is
\* dirty and in the chunk lists
C39_Witness ==
    /\ region_op = "G_Region_Remove"
    /\ events # EmptyBag
    /\ s_dirty # {}
    /\ IntersectingNames # {}
    /\ \E n \in RegionNames : n \notin Registered

(***************************************************************************)
(* region.c: the comparator of the two qsort calls                         *)
(***************************************************************************)
\* an array of uids in ascending order of their unsigned values
Ascending(seq) == \A k, m \in 1 .. Len(seq) : k < m => uint32_lt(seq[k], seq[m])

\* C40: for every two uids of a region compare_uint32s is negative, zero or
\* positive as the first uid is below, equal to or above the second as
\* uint32_t, and after G_Region_Update the member arrays of the regions are
\* ascending
C40_ComparatorAgreesWithUnsignedOrder ==
    \A n \in Registered :
        LET reg  == s_regions[n]
            uids == Members(reg.curr_ents) \cup Members(reg.prev_ents)
        IN  /\ \A a, b \in uids :
                  /\ compare_uint32s(a, b) < 0 <=> uint32_lt(a, b)
                  /\ compare_uint32s(a, b) = 0 <=> a = b
                  /\ compare_uint32s(a, b) > 0 <=> uint32_lt(b, a)
            /\ region_op = "G_Region_Update"
                  => Ascending(reg.curr_ents) /\ Ascending(reg.prev_ents)

\* a tick after which the members of a region are the large uid and then 1
C40_DescendingAfterUpdate ==
    /\ region_op = "G_Region_Update"
    /\ \E n \in Registered : s_regions[n].prev_ents = <<BigUid, 1>>

====
